---------------------------- MODULE Spec2Model ----------------------------
(***************************************************************************)
(* A model of taxmusr: the deterministic assessment engine                 *)
(* (domains/joint_assessment/logic.py), the bounded reasoning-tree builder *)
(* (domains/*/domain.py, domains/formatter.py), the grounded construction  *)
(* mode and the batch driver (generate.py, core/generator.py).             *)
(*                                                                         *)
(* Specifications.  SpecTax, SpecCouple and SpecMedical apply the engine;  *)
(* Spec builds one tree from a given template, with an oracle that may     *)
(* fail; SpecTerminates is the same build under fairness with an oracle    *)
(* that answers every call; SpecGrounded runs the grounded domain from the *)
(* sampled couple to the tree; SpecGenerate runs generate_examples from    *)
(* the call to the return.                                                 *)
(*                                                                         *)
(* Numbers.  The Python code computes in binary floating point.  The model *)
(* computes the same quantities exactly over the rationals, with integers  *)
(* that stay below 2^31:                                                   *)
(*   - an amount of money given to the engine is a whole number of euros;  *)
(*     derived incomes are whole cents;                                    *)
(*   - a real argument of the tax function is a fraction num/den;          *)
(*   - a liability is an Amount [q, r, d]: q + r/d cents, 0 <= r < d;      *)
(*   - round(x, 2) is the set of cent values the float computation can     *)
(*     return: one value, or both neighbours when x lies within RoundSlack *)
(*     of a half cent, where the float error decides.                      *)
(***************************************************************************)
EXTENDS Integers, Sequences, FiniteSets, TLC

VARIABLES
    tin,        \* SpecTax: the pair of real inputs (in cents) handed to the tax function
    tcall,      \* SpecTax: the last call made on tin and what it returned
    params,     \* SpecCouple: the CoupleTaxInput; SpecMedical: the Person
    assessment, \* SpecCouple: what compare_assessments returned for params
    domain,     \* Spec: which TaxDomain builds the tree
    max_depth,  \* Spec: self.max_depth
    nodes,      \* Spec: the heap of ReasoningNode objects, nodes[1] is root
    story_template, \* Spec: the StoryTemplate handed to complete_reasoning_tree
    stack,      \* Spec: the call stack of expand_node
    tpc,        \* Spec: where complete_reasoning_tree stands
    calls,      \* Spec: the oracle invocations of expand_node, in order
    gen,        \* SpecGenerate: the arguments and locals of generate_examples
    fs,         \* SpecGenerate: the output directory and the per-domain file
    fs0         \* SpecGenerate: fs as it was when generate_examples was called

vars == <<tin, tcall, params, assessment, domain, max_depth, story_template, nodes, stack, tpc,
          calls, gen, fs, fs0>>

taxVars    == <<tin, tcall>>
coupleVars == <<params, assessment>>
treeVars   == <<domain, max_depth, story_template, nodes, stack, tpc, calls>>
genVars    == <<gen, fs, fs0>>

Max(a, b) == IF a >= b THEN a ELSE b
Min(a, b) == IF a <= b THEN a ELSE b

(***************************************************************************)
(* Exact arithmetic helpers.                                               *)
(***************************************************************************)

\* <<q, r>> with a*b = q*c + r and 0 <= r < c, for a, b >= 0 and 0 < c < 7*10^8,
\* computed bit by bit over b so that no intermediate value leaves 32 bits.
RECURSIVE MulDiv(_, _, _)
MulDiv(a, b, c) ==
    IF b = 0 THEN <<0, 0>>
    ELSE LET h == MulDiv(a, b \div 2, c)
             t == 2 * h[2] + (b % 2) * (a % c)
         IN  <<2 * h[1] + (b % 2) * (a \div c) + (t \div c), t % c>>

\* math.floor of the real num/den (den > 0).
Floor(num, den) == num \div den

(***************************************************************************)
(* logic.py: the progressive tax function.                                 *)
(***************************************************************************)

\* Second regime, d = x - e1 euros: floor((932.30*y + 1400.0)*y) with y = d/10000,
\* that is floor((9323*d + 140000000) * d / 10^9).
TaxZone2(d) == MulDiv(9323 * d + 140000000, d, 1000)[1] \div 1000000

\* The mutant of TaxZone3: the constant term 1015.13 of the third regime left out.
TaxZone3NoOffset(d) == MulDiv(276 * d + 37453125, d, 156250000)[1]

\* Third regime, d = x - e2 euros: floor((176.64*z + 2397.0)*z + 1015.13) with
\* z = d/10000.  (17664*d + 2397000000)*d / 10^10 = (276*d + 37453125)*d / 156250000
\* (both divided by 64), and 0.13 = 20312500 / 156250000.
TaxZone3(d) ==
    LET qr == MulDiv(276 * d + 37453125, d, 156250000)
    IN  qr[1] + 1015 + (IF qr[2] + 20312500 >= 156250000 THEN 1 ELSE 0)

\* The mutant of compute_tax_2025: the basic allowance of the previous year's
\* table (11784) as first breakpoint.
compute_tax_stale_allowance(num, den) ==
    LET x == Floor(Max(0, num), den)
    IN  IF x <= 11784 THEN 0
        ELSE IF x <= 17443 THEN TaxZone2(x - 11784)
        ELSE IF x <= 68480 THEN TaxZone3(x - 17443)
        ELSE IF x <= 277825 THEN Floor(42 * x - 1091192, 100)
        ELSE Floor(45 * x - 1924667, 100)

\* compute_tax_2025(x) for the real x = num/den (den > 0).
compute_tax_2025(num, den) ==
    LET x == Floor(Max(0, num), den)
    IN  IF x <= 12096 THEN 0
        ELSE IF x <= 17443 THEN TaxZone2(x - 12096)
        ELSE IF x <= 68480 THEN TaxZone3(x - 17443)
        ELSE IF x <= 277825 THEN Floor(42 * x - 1091192, 100)
        ELSE Floor(45 * x - 1924667, 100)

\* single_assessment(taxable_income): tax_function(max(0.0, taxable_income)).
single_assessment(num, den) == compute_tax_2025(Max(0, num), den)

\* The mutant of joint_assessment: the tax on the whole income instead of twice
\* the tax on its half.
joint_assessment_nosplit(num, den) == compute_tax_2025(Max(0, num), den)

\* joint_assessment(taxable_income): half = max(0.0, taxable_income) / 2.0;
\* 2.0 * tax_function(half).
joint_assessment(num, den) == 2 * compute_tax_2025(Max(0, num), 2 * den)

\* The mutant of progression_rate_with_wrb: the transfer income not clamped at 0.
progression_rate_unclamped_wrb(taxable_income, wage_replacement, joint) ==
    LET base_plus == Max(0, taxable_income) + wage_replacement
        tax_with_progression ==
            IF joint THEN joint_assessment(base_plus, 100)
                     ELSE single_assessment(base_plus, 100)
    IN  IF base_plus <= 0
        THEN [num |-> 0, den |-> 1, zero |-> TRUE,
              base_plus |-> base_plus, tax_with_progression |-> 0]
        ELSE [num |-> tax_with_progression, den |-> base_plus, zero |-> FALSE,
              base_plus |-> base_plus, tax_with_progression |-> tax_with_progression]

\* The mutant of progression_rate_with_wrb: the rate of the taxable income alone,
\* the transfer income left out of the base.
progression_rate_taxable_only(taxable_income, wage_replacement, joint) ==
    LET base_plus == Max(0, taxable_income)
        tax_with_progression ==
            IF joint THEN joint_assessment(base_plus, 100)
                     ELSE single_assessment(base_plus, 100)
    IN  IF base_plus <= 0
        THEN [num |-> 0, den |-> 1, zero |-> TRUE,
              base_plus |-> base_plus, tax_with_progression |-> 0]
        ELSE [num |-> tax_with_progression, den |-> base_plus, zero |-> FALSE,
              base_plus |-> base_plus, tax_with_progression |-> tax_with_progression]

\* progression_rate_with_wrb(taxable_income, wage_replacement, joint), both amounts
\* in cents.  The rate is the fraction num/den: num euros of tax on a base of den
\* cents; tax_with_progression and base_plus are kept for inspection.
progression_rate_with_wrb(taxable_income, wage_replacement, joint) ==
    LET base_plus == Max(0, taxable_income) + Max(0, wage_replacement)
        tax_with_progression ==
            IF joint THEN joint_assessment(base_plus, 100)
                     ELSE single_assessment(base_plus, 100)
    IN  IF base_plus <= 0
        THEN [num |-> 0, den |-> 1, zero |-> TRUE,
              base_plus |-> base_plus, tax_with_progression |-> 0]
        ELSE [num |-> tax_with_progression, den |-> base_plus, zero |-> FALSE,
              base_plus |-> base_plus, tax_with_progression |-> tax_with_progression]

\* The mutant of get_taxable_income_after_medical: the band limits taken as strict
\* (income < 15340, income < 51130).
get_taxable_income_after_medical_strict(person) ==
    LET income     == Max(0, person.income)
        medical    == Max(0, person.medical_costs)
        threshold  == IF income < 15340 THEN 5 * income
                      ELSE IF income < 51130 THEN 6 * income
                      ELSE 7 * income
        deductible == Max(0, 100 * medical - threshold)
    IN  Max(0, 100 * income - deductible)

\* get_taxable_income_after_medical(person): the adjusted income in cents of a
\* person whose income and medical_costs are whole euros.  threshold is
\* 0.05/0.06/0.07 * income euros, that is 5/6/7 * income cents.
get_taxable_income_after_medical(person) ==
    LET income     == Max(0, person.income)
        medical    == Max(0, person.medical_costs)
        threshold  == IF income <= 15340 THEN 5 * income
                      ELSE IF income <= 51130 THEN 6 * income
                      ELSE 7 * income
        deductible == Max(0, 100 * medical - threshold)
    IN  Max(0, 100 * income - deductible)

\* compute_special_church_tax(income), income in cents, the levy in euros.
compute_special_church_tax(income) ==
    IF income < 5000000 THEN 0
    ELSE IF income < 5750000 THEN 96
    ELSE IF income < 7000000 THEN 156
    ELSE IF income < 8250000 THEN 276
    ELSE IF income < 9500000 THEN 396
    ELSE IF income < 10750000 THEN 540
    ELSE IF income < 12000000 THEN 696
    ELSE IF income < 14500000 THEN 840
    ELSE IF income < 17000000 THEN 1200
    ELSE IF income < 19500000 THEN 1560
    ELSE IF income < 22000000 THEN 1860
    ELSE IF income < 27000000 THEN 2220
    ELSE IF income < 32000000 THEN 2940
    ELSE 3600

(***************************************************************************)
(* Amounts: [q, r, d] is q + r/d cents.                                    *)
(***************************************************************************)

Whole(cents) == [q |-> cents, r |-> 0, d |-> 1]

\* pct/100 * rate * t: pct percent of the liability the rate charges on t cents,
\* in cents: pct * rate.num * t / rate.den.
Scale(rate, pct, t) ==
    LET qr == MulDiv(pct * rate.num, t, rate.den)
    IN  [q |-> qr[1], r |-> qr[2], d |-> rate.den]

\* x + y for two amounts over the same denominator (or a whole amount).
Plus(x, y) ==
    IF y.d = 1 THEN [q |-> x.q + y.q, r |-> x.r, d |-> x.d]
    ELSE IF x.d = 1 THEN [q |-> x.q + y.q, r |-> y.r, d |-> y.d]
    ELSE [q |-> x.q + y.q + ((x.r + y.r) \div x.d), r |-> (x.r + y.r) % x.d, d |-> x.d]

\* x >= y for two amounts over the same denominator (or a whole amount).
AtLeast(x, y) ==
    \/ x.q > y.q
    \/ x.q = y.q /\ (IF x.d = y.d THEN x.r >= y.r ELSE y.r = 0)

\* max(x, y) as Python computes it: y only when y > x.
MaxAmount(x, y) == IF AtLeast(x, y) THEN x ELSE y

\* How close to a half cent (in 10^-8 cents) an exact sum has to lie for the
\* float error of the Python computation to decide the rounding.
RoundSlack == 1000

\* floor(10^8 * r/d): the fraction of a cent of an amount, to eight places.
Frac8(x) == MulDiv(x.r, 100000000, x.d)[1]

\* round(x + y, 2) in cents: every cent value j above the whole cents of x and y
\* that the sum of the fractions can round to.
Round2(x, y) ==
    LET s == Frac8(x) + Frac8(y)
    IN  {x.q + y.q + j : j \in {k \in 0..2 :
            /\ s + 2 + RoundSlack >= (2 * k - 1) * 50000000
            /\ s - RoundSlack <= (2 * k + 1) * 50000000}}

(***************************************************************************)
(* logic.py: core calculations.  A Person has income, wage_replacement and *)
(* medical_costs in whole euros; church_tax_rate is in percent.            *)
(***************************************************************************)

\* The mutant of SpecialAppliesA: the test that exactly one partner is a member
\* left out.
SpecialAppliesAnyMember(p, share_a_low) == p.a.pays_church_tax /\ share_a_low

\* compute_joint_total, lines 179-180: the stepped levy is looked up for a.
SpecialAppliesA(p, share_a_low) ==
    /\ p.a.pays_church_tax # p.b.pays_church_tax
    /\ p.a.pays_church_tax /\ share_a_low

\* The mutant of SpecialAppliesB: the test of b's share written with a's share.
SpecialAppliesBShareOfA(p, share_a_low, share_b_low) ==
    /\ p.a.pays_church_tax # p.b.pays_church_tax
    /\ ~(p.a.pays_church_tax /\ share_a_low)
    /\ p.b.pays_church_tax /\ share_a_low

\* compute_joint_total, lines 179 and 183 (the elif): the stepped levy is looked
\* up for b.
SpecialAppliesB(p, share_a_low, share_b_low) ==
    /\ p.a.pays_church_tax # p.b.pays_church_tax
    /\ ~(p.a.pays_church_tax /\ share_a_low)
    /\ p.b.pays_church_tax /\ share_b_low

\* The locals of compute_joint_total(params) at its return; .rounded is what
\* round(base_total + church_a + church_b, 2) can be, in cents.
compute_joint_total(p) ==
    LET ta == get_taxable_income_after_medical(p.a)
        tb == get_taxable_income_after_medical(p.b)
        taxable_total == ta + tb
        wrb_total == 100 * (Max(0, p.a.wage_replacement) + Max(0, p.b.wage_replacement))
        prate == progression_rate_with_wrb(taxable_total, wrb_total, TRUE)
        income_tax_total == Scale(prate, 100, taxable_total)
        base_total == income_tax_total
        \* share_a < 0.35 with share_a = ta / taxable_total if taxable_total > 0 else 0.0
        share_a_low == IF taxable_total > 0 THEN 100 * ta < 35 * taxable_total ELSE TRUE
        share_b_low == IF taxable_total > 0 THEN 100 * tb < 35 * taxable_total ELSE TRUE
        \* alloc = base_total * share = prate * taxable_total * (t / taxable_total)
        alloc_a == IF taxable_total > 0 THEN Scale(prate, 100, ta) ELSE Whole(0)
        alloc_b == IF taxable_total > 0 THEN Scale(prate, 100, tb) ELSE Whole(0)
        \* alloc * church_tax_rate
        levy_a == IF taxable_total > 0 THEN Scale(prate, p.church_tax_rate, ta) ELSE Whole(0)
        levy_b == IF taxable_total > 0 THEN Scale(prate, p.church_tax_rate, tb) ELSE Whole(0)
        church_a0 == IF p.a.pays_church_tax THEN levy_a ELSE Whole(0)
        church_b0 == IF p.b.pays_church_tax THEN levy_b ELSE Whole(0)
        special_church_tax == Whole(100 * compute_special_church_tax(taxable_total))
        special_a == SpecialAppliesA(p, share_a_low)
        special_b == SpecialAppliesB(p, share_a_low, share_b_low)
        church_a == IF special_a THEN MaxAmount(church_a0, special_church_tax) ELSE church_a0
        church_b == IF special_b THEN MaxAmount(church_b0, special_church_tax) ELSE church_b0
        total == Plus(Plus(base_total, church_a), church_b)
    IN  [ta |-> ta, tb |-> tb, taxable_total |-> taxable_total, wrb_total |-> wrb_total,
         prate |-> prate, base_total |-> base_total,
         share_a_low |-> share_a_low, share_b_low |-> share_b_low,
         alloc_a |-> alloc_a, alloc_b |-> alloc_b,
         levy_a |-> levy_a, levy_b |-> levy_b,
         special_a |-> special_a, special_b |-> special_b,
         special_church_tax |-> special_church_tax,
         church_a |-> church_a, church_b |-> church_b,
         total |-> total, rounded |-> Round2(total, Whole(0))]

\* The locals of compute_individual_total(params) at its return.
compute_individual_total(p) ==
    LET ta == get_taxable_income_after_medical(p.a)
        prate_a == progression_rate_with_wrb(ta, 100 * p.a.wage_replacement, FALSE)
        base_a == Scale(prate_a, 100, ta)
        church_a == IF p.a.pays_church_tax
                    THEN Scale(prate_a, p.church_tax_rate, ta) ELSE Whole(0)
        total_a == Plus(base_a, church_a)
        tb == get_taxable_income_after_medical(p.b)
        prate_b == progression_rate_with_wrb(tb, 100 * p.b.wage_replacement, FALSE)
        base_b == Scale(prate_b, 100, tb)
        church_b == IF p.b.pays_church_tax
                    THEN Scale(prate_b, p.church_tax_rate, tb) ELSE Whole(0)
        total_b == Plus(base_b, church_b)
    IN  [ta |-> ta, tb |-> tb, prate_a |-> prate_a, prate_b |-> prate_b,
         base_a |-> base_a, base_b |-> base_b,
         church_a |-> church_a, church_b |-> church_b,
         total_a |-> total_a, total_b |-> total_b,
         rounded |-> Round2(total_a, total_b)]

\* The mutant of Recommendation: a tie resolved to "individual".
RecommendationTieIndividual(joint_total, individual_total) ==
    IF joint_total < individual_total THEN "joint" ELSE "individual"

\* compare_assessments, the recommendation line.
Recommendation(joint_total, individual_total) ==
    IF joint_total < individual_total THEN "joint"
    ELSE IF individual_total < joint_total THEN "individual"
    ELSE "joint"

\* compare_assessments(params): the dictionaries it can return (totals in cents),
\* with the locals of the two calculators for inspection.
compare_assessments(p) ==
    LET j == compute_joint_total(p)
        i == compute_individual_total(p)
    IN  {[individual_total_tax |-> individual_total,
          joint_total_tax |-> joint_total,
          advantage_if_positive_joint_saves |-> individual_total - joint_total,
          recommendation |-> Recommendation(joint_total, individual_total),
          joint |-> j, individual |-> i]
         : joint_total \in j.rounded, individual_total \in i.rounded}

(***************************************************************************)
(* Idle values of the three groups of variables.                           *)
(***************************************************************************)

TaxIdle    == tin = [x |-> 0, y |-> 0] /\ tcall = <<>>
CoupleIdle == params = <<>> /\ assessment = <<>>
TreeIdle   ==
    /\ domain = "none" /\ max_depth = 0 /\ story_template = <<>>
    /\ nodes = <<>> /\ stack = <<>> /\ tpc = "idle" /\ calls = <<>>
NoFile     == [dir |-> FALSE, exists |-> FALSE, lines |-> <<>>]
GenIdle    == gen = [pc |-> "idle"] /\ fs = NoFile /\ fs0 = NoFile

(***************************************************************************)
(* SpecTax: the pure functions of the assessment engine applied to a pair  *)
(* of real inputs x, y (in cents).                                         *)
(***************************************************************************)

\* The coarse grid: TaxSteps strides of TaxStride euros.
TaxSteps  == 60
TaxStride == 4987

\* e1..e4 of compute_tax_2025.
Breakpoints == {12096, 17443, 68480, 277825}

\* Inputs in cents: negative ones, the coarse grid, and around each breakpoint b
\* the values b-1, b-0.01, b, b+0.01, b+0.99, b+1, b+1.01 and b+2 euros.
TaxGrid ==
    {-5000000, -100, -1}
    \cup {100 * TaxStride * i : i \in 0..TaxSteps}
    \cup {100 * b + k : b \in Breakpoints, k \in {-100, -1, 0, 1, 99, 100, 101, 200}}

InitTax ==
    /\ tin \in [x : TaxGrid, y : TaxGrid]
    /\ tcall = <<>>
    /\ CoupleIdle /\ TreeIdle /\ GenIdle

\* compute_tax_2025(x) and compute_tax_2025(y)
CallTax ==
    /\ tcall' = <<[op |-> "compute_tax_2025",
                   rx |-> compute_tax_2025(tin.x, 100),
                   ry |-> compute_tax_2025(tin.y, 100)]>>
    /\ UNCHANGED <<tin, coupleVars, treeVars, genVars>>

\* joint_assessment(x)
CallJoint ==
    /\ tcall' = <<[op |-> "joint_assessment", rx |-> joint_assessment(tin.x, 100)]>>
    /\ UNCHANGED <<tin, coupleVars, treeVars, genVars>>

\* progression_rate_with_wrb(x, y, joint)
CallProgression ==
    /\ \E joint \in BOOLEAN :
          tcall' = <<[op |-> "progression_rate_with_wrb", joint |-> joint,
                      rate |-> progression_rate_with_wrb(tin.x, tin.y, joint)]>>
    /\ UNCHANGED <<tin, coupleVars, treeVars, genVars>>

NextTax == CallTax \/ CallJoint \/ CallProgression

SpecTax == InitTax /\ [][NextTax]_vars

\* The last call, when it was a call of op.
TaxCalled(op) == tcall # <<>> /\ tcall[1].op = op

\* C4: compute_tax_2025(x) is exactly 0 for every income x at or below the first
\* breakpoint 12096, every negative x included.
C4_ZeroBelowFirstBreakpoint ==
    TaxCalled("compute_tax_2025") =>
        /\ (tin.x <= 1209600 => tcall[1].rx = 0)
        /\ (tin.y <= 1209600 => tcall[1].ry = 0)

\* C4 witness: the function was applied at the breakpoint itself and at a negative
\* income, and returned 0 for both.
C4_Witness ==
    /\ TaxCalled("compute_tax_2025")
    /\ tin.x = 1209600 /\ tin.y < 0
    /\ tcall[1].rx = 0 /\ tcall[1].ry = 0

\* C5: for all incomes x <= y with x >= 12097, compute_tax_2025(x) <=
\* compute_tax_2025(y), also when x and y lie on the two sides of a breakpoint.
C5_Monotone ==
    TaxCalled("compute_tax_2025") /\ 1209700 <= tin.x /\ tin.x <= tin.y
        => tcall[1].rx <= tcall[1].ry

\* C5 witness: a pair on the two sides of the breakpoint 17443 was evaluated (the
\* tax is 1015 on both sides: the schedule is flat across the breakpoint).
C5_Witness ==
    /\ TaxCalled("compute_tax_2025")
    /\ tin.x = 1744300 /\ tin.y = 1744400
    /\ tcall[1].rx = 1015 /\ tcall[1].ry = 1015

\* C6: for every combined income x >= 0, joint_assessment(x), and the liability the
\* joint branch of progression_rate_with_wrb computes when there is no transfer
\* income, is exactly 2 * compute_tax_2025(x / 2).
C6_Splitting ==
    /\ TaxCalled("joint_assessment") /\ tin.x >= 0
          => tcall[1].rx = 2 * compute_tax_2025(tin.x, 200)
    /\ TaxCalled("progression_rate_with_wrb") /\ tcall[1].joint /\ tin.x >= 0 /\ tin.y <= 0
          => tcall[1].rate.tax_with_progression = 2 * compute_tax_2025(tin.x, 200)

\* C6 witness: the joint branch of progression_rate_with_wrb ran on an income whose
\* half is taxed, with no transfer income.
C6_Witness ==
    /\ TaxCalled("progression_rate_with_wrb") /\ tcall[1].joint
    /\ tin.x = 100 * 8 * TaxStride /\ tin.y = 0
    /\ tcall[1].rate.tax_with_progression > 0

(***************************************************************************)
(* SpecCouple: compare_assessments on a couple input.                      *)
(***************************************************************************)

\* Incomes: IncomeSteps strides of IncomeStride euros, a negative one, and the
\* incomes of IMBALANCED and SIMILAR the fixtures use.
IncomeSteps  == 4
IncomeStride == 12000

Incomes == {-5000} \cup {IncomeStride * i : i \in 0..IncomeSteps}
              \cup {22000, 95000, 70000, 72000}

Persons(wages, medicals) ==
    [income : Incomes, pays_church_tax : BOOLEAN, wage_replacement : wages,
     medical_costs : medicals, fully_liable_for_tax : {TRUE}]

InitCouple ==
    /\ params \in [a : Persons({-3000, 0, 10800, 21600}, {0, 5000}),
                    b : Persons({0, 10800}, {-400, 0, 2000}),
                    church_tax_rate : {9, 8}, married : {TRUE}, children : {0},
                    live_together : {TRUE}]
    /\ assessment = <<>>
    /\ TaxIdle /\ TreeIdle /\ GenIdle

\* assessment_result = compare_assessments(couple_facts)
CompareAssessments ==
    /\ assessment = <<>>
    /\ \E r \in compare_assessments(params) : assessment' = <<r>>
    /\ UNCHANGED <<params, taxVars, treeVars, genVars>>

NextCouple == CompareAssessments

SpecCouple == InitCouple /\ [][NextCouple]_vars

Assessed == assessment # <<>>

NoTransferNoMedical ==
    /\ params.a.wage_replacement = 0 /\ params.b.wage_replacement = 0
    /\ params.a.medical_costs = 0 /\ params.b.medical_costs = 0

NoLevyMember == ~params.a.pays_church_tax /\ ~params.b.pays_church_tax

\* C1: the recommendation is "joint" when the joint total is strictly less,
\* "individual" when the individual total is strictly less, "joint" on a tie; a
\* couple with both incomes zero, no transfer income and no levy membership has
\* equal totals and is recommended "joint".
C1_Recommendation ==
    Assessed =>
        LET r == assessment[1] IN
        /\ r.joint_total_tax < r.individual_total_tax => r.recommendation = "joint"
        /\ r.individual_total_tax < r.joint_total_tax => r.recommendation = "individual"
        /\ r.joint_total_tax = r.individual_total_tax => r.recommendation = "joint"
        /\ (/\ params.a.income = 0 /\ params.b.income = 0
            /\ params.a.wage_replacement = 0 /\ params.b.wage_replacement = 0
            /\ NoLevyMember)
              => /\ r.joint_total_tax = r.individual_total_tax
                 /\ r.recommendation = "joint"

\* C1 witness: the zero couple was assessed: a tie, resolved to "joint".
C1_Witness ==
    /\ Assessed
    /\ params.a.income = 0 /\ params.b.income = 0 /\ NoTransferNoMedical /\ NoLevyMember
    /\ assessment[1].joint_total_tax = 0 /\ assessment[1].individual_total_tax = 0
    /\ assessment[1].recommendation = "joint"

\* C2: the couple a.income = 95000, b.income = 22000 (no transfer income, no
\* medical costs, no levy membership) is recommended "joint".
C2_Imbalanced ==
    Assessed /\ params.a.income = 95000 /\ params.b.income = 22000
             /\ NoTransferNoMedical /\ NoLevyMember
        => assessment[1].recommendation = "joint"

\* C2 witness: that couple was assessed; joint filing costs 27668.00 against
\* 31132.00.
C2_Witness ==
    /\ Assessed /\ params.a.income = 95000 /\ params.b.income = 22000
    /\ NoTransferNoMedical /\ NoLevyMember
    /\ assessment[1].joint_total_tax = 2766800
    /\ assessment[1].individual_total_tax = 3113200

\* C3: the couple a.income = 72000, b.income = 70000 with no levy membership, no
\* transfer income and no medical costs is recommended "joint".
C3_Similar ==
    Assessed /\ params.a.income = 72000 /\ params.b.income = 70000
             /\ NoTransferNoMedical /\ NoLevyMember
        => assessment[1].recommendation = "joint"

\* C3 witness: that couple was assessed; both filings cost 37816.00, a tie.
C3_Witness ==
    /\ Assessed /\ params.a.income = 72000 /\ params.b.income = 70000
    /\ NoTransferNoMedical /\ NoLevyMember
    /\ assessment[1].joint_total_tax = 3781600
    /\ assessment[1].individual_total_tax = 3781600

\* Two amounts of the same value.
SameAmount(x, y) == AtLeast(x, y) /\ AtLeast(y, x)

\* The levy the claim gives a partner: the larger of the allocated levy and the
\* table lookup when the partner is the only member and holds less than 35% of the
\* combined adjusted income, else the allocated levy of a member, else 0.
C7_Levy(pays_self, pays_other, t_self, j, levy_self) ==
    LET low == IF j.taxable_total > 0 THEN 100 * t_self < 35 * j.taxable_total ELSE TRUE
        table == Whole(100 * compute_special_church_tax(j.taxable_total))
    IN  IF pays_self /\ ~pays_other /\ low
        THEN (IF AtLeast(table, levy_self) THEN table ELSE levy_self)
        ELSE IF pays_self THEN levy_self ELSE Whole(0)

\* C7: in compute_joint_total the stepped levy replaces a partner's allocated levy
\* only when that partner is the only member and holds less than 35% of the
\* combined adjusted income, and the levy is then the larger of the two; never for
\* both partners, never when both or neither is a member.
C7_StepLevy ==
    Assessed =>
        LET j == assessment[1].joint IN
        /\ SameAmount(j.church_a, C7_Levy(params.a.pays_church_tax,
                                           params.b.pays_church_tax, j.ta, j, j.levy_a))
        /\ SameAmount(j.church_b, C7_Levy(params.b.pays_church_tax,
                                           params.a.pays_church_tax, j.tb, j, j.levy_b))
        /\ ~(j.special_a /\ j.special_b)
        /\ (params.a.pays_church_tax = params.b.pays_church_tax
               => ~j.special_a /\ ~j.special_b)

\* C7 witness: a is the only member with less than 35% of the income, and the table
\* lookup replaced the smaller allocated levy.
C7_Witness ==
    /\ Assessed
    /\ params.a.pays_church_tax /\ ~params.b.pays_church_tax
    /\ assessment[1].joint.special_a
    /\ ~AtLeast(assessment[1].joint.levy_a, assessment[1].joint.church_a)
    /\ assessment[1].joint.church_a.q > 0

(***************************************************************************)
(* Text.  A Python str is the sequence of its characters.                  *)
(***************************************************************************)

\* the literal "Story Fact:"
STORY_PREFIX ==
    <<"S","t","o","r","y"," ","F","a","c","t",":">>

\* the literal "Rule:"
RULE_PREFIX ==
    <<"R","u","l","e",":">>

\* forbidden_words[0]
W_JOINT_ASSESSMENT ==
    <<"j","o","i","n","t"," ","a","s","s","e","s","s","m","e","n","t">>

\* forbidden_words[1]
W_INDIVIDUAL_ASSESSMENT ==
    <<"i","n","d","i","v","i","d","u","a","l"," ","a","s","s","e","s","s","m","e","n","t">>

\* 'The couple is eligible for joint assessment and should opt for it to minimize their tax burden.'
T_JOINT_GOLD ==
    <<"T","h","e"," ","c","o","u","p","l","e"," ","i","s"," ","e","l","i","g","i","b","l","e"," ","f","o","r"," ","j","o","i","n","t"," ","a","s","s","e","s","s","m","e","n","t"," ","a","n","d"," ","s","h","o","u","l","d"," ","o","p","t"," ","f","o","r"," ","i","t"," ","t","o"," ","m","i","n","i","m","i","z","e"," ","t","h","e","i","r"," ","t","a","x"," ","b","u","r","d","e","n",".">>

\* 'The couple is not eligible for joint assessment and must file individual assessments.'
T_JOINT_GOLD_INDIVIDUAL ==
    <<"T","h","e"," ","c","o","u","p","l","e"," ","i","s"," ","n","o","t"," ","e","l","i","g","i","b","l","e"," ","f","o","r"," ","j","o","i","n","t"," ","a","s","s","e","s","s","m","e","n","t"," ","a","n","d"," ","m","u","s","t"," ","f","i","l","e"," ","i","n","d","i","v","i","d","u","a","l"," ","a","s","s","e","s","s","m","e","n","t","s",".">>

\* 'The couple has no children.'
T_NO_CHILDREN ==
    <<"T","h","e"," ","c","o","u","p","l","e"," ","h","a","s"," ","n","o"," ","c","h","i","l","d","r","e","n",".">>

\* 'The couple has 2 children.'
T_TWO_CHILDREN ==
    <<"T","h","e"," ","c","o","u","p","l","e"," ","h","a","s"," ","2"," ","c","h","i","l","d","r","e","n",".">>

\* 'The home office is eligible and the pro-rata costs can be deducted.'
T_HOME_GOLD ==
    <<"T","h","e"," ","h","o","m","e"," ","o","f","f","i","c","e"," ","i","s"," ","e","l","i","g","i","b","l","e"," ","a","n","d"," ","t","h","e"," ","p","r","o","-","r","a","t","a"," ","c","o","s","t","s"," ","c","a","n"," ","b","e"," ","d","e","d","u","c","t","e","d",".">>

\* 'The narrator works as a Teacher.'
T_HOME_JOB ==
    <<"T","h","e"," ","n","a","r","r","a","t","o","r"," ","w","o","r","k","s"," ","a","s"," ","a"," ","T","e","a","c","h","e","r",".">>

\* 'The narrator lives in an apartment with 2 rooms.'
T_HOME_ROOMS ==
    <<"T","h","e"," ","n","a","r","r","a","t","o","r"," ","l","i","v","e","s"," ","i","n"," ","a","n"," ","a","p","a","r","t","m","e","n","t"," ","w","i","t","h"," ","2"," ","r","o","o","m","s",".">>

\* 'The couple should opt for joint assessment to minimize their tax burden.'
T_GROUNDED_JOINT ==
    <<"T","h","e"," ","c","o","u","p","l","e"," ","s","h","o","u","l","d"," ","o","p","t"," ","f","o","r"," ","j","o","i","n","t"," ","a","s","s","e","s","s","m","e","n","t"," ","t","o"," ","m","i","n","i","m","i","z","e"," ","t","h","e","i","r"," ","t","a","x"," ","b","u","r","d","e","n",".">>

\* 'The couple should file individual assessments.'
T_GROUNDED_INDIVIDUAL ==
    <<"T","h","e"," ","c","o","u","p","l","e"," ","s","h","o","u","l","d"," ","f","i","l","e"," ","i","n","d","i","v","i","d","u","a","l"," ","a","s","s","e","s","s","m","e","n","t","s",".">>

\* 'Person A and Person B are married.'
T_MARRIED ==
    <<"P","e","r","s","o","n"," ","A"," ","a","n","d"," ","P","e","r","s","o","n"," ","B"," ","a","r","e"," ","m","a","r","r","i","e","d",".">>

\* 'Person A has no taxable income.'
T_A_NO_INCOME ==
    <<"P","e","r","s","o","n"," ","A"," ","h","a","s"," ","n","o"," ","t","a","x","a","b","l","e"," ","i","n","c","o","m","e",".">>

\* 'Person B has no taxable income.'
T_B_NO_INCOME ==
    <<"P","e","r","s","o","n"," ","B"," ","h","a","s"," ","n","o"," ","t","a","x","a","b","l","e"," ","i","n","c","o","m","e",".">>

\* 'The couple lived together at least for one day during the year.'
T_LIVED_TOGETHER ==
    <<"T","h","e"," ","c","o","u","p","l","e"," ","l","i","v","e","d"," ","t","o","g","e","t","h","e","r"," ","a","t"," ","l","e","a","s","t"," ","f","o","r"," ","o","n","e"," ","d","a","y"," ","d","u","r","i","n","g"," ","t","h","e"," ","y","e","a","r",".">>

\* 'Person A is currently unemployed.'
T_A_UNEMPLOYED ==
    <<"P","e","r","s","o","n"," ","A"," ","i","s"," ","c","u","r","r","e","n","t","l","y"," ","u","n","e","m","p","l","o","y","e","d",".">>

\* 'Person B is currently unemployed.'
T_B_UNEMPLOYED ==
    <<"P","e","r","s","o","n"," ","B"," ","i","s"," ","c","u","r","r","e","n","t","l","y"," ","u","n","e","m","p","l","o","y","e","d",".">>

\* 'Story Fact: "The couple should file jointly."'
L_FILE_JOINTLY ==
    <<"S","t","o","r","y"," ","F","a","c","t",":"," ","\"","T","h","e"," ","c","o","u","p","l","e"," ","s","h","o","u","l","d"," ","f","i","l","e"," ","j","o","i","n","t","l","y",".","\"">>

\* '  Story Fact: They chose Joint Assessment. '
L_UPPER_FORBIDDEN ==
    <<" "," ","S","t","o","r","y"," ","F","a","c","t",":"," ","T","h","e","y"," ","c","h","o","s","e"," ","J","o","i","n","t"," ","A","s","s","e","s","s","m","e","n","t","."," ">>

\* 'Story Fact: She earns more.'
L_PLAIN_STORY ==
    <<"S","t","o","r","y"," ","F","a","c","t",":"," ","S","h","e"," ","e","a","r","n","s"," ","m","o","r","e",".">>

\* 'Rule: "Income tax brackets are progressive"'
L_RULE ==
    <<"R","u","l","e",":"," ","\"","I","n","c","o","m","e"," ","t","a","x"," ","b","r","a","c","k","e","t","s"," ","a","r","e"," ","p","r","o","g","r","e","s","s","i","v","e","\"">>

\* 'Story Fact: ""'
L_EMPTY_STORY ==
    <<"S","t","o","r","y"," ","F","a","c","t",":"," ","\"","\"">>

\* 'Here are the facts:'
L_OTHER ==
    <<"H","e","r","e"," ","a","r","e"," ","t","h","e"," ","f","a","c","t","s",":">>

\* 'The couple should file jointly.'
S_FILE_JOINTLY ==
    <<"T","h","e"," ","c","o","u","p","l","e"," ","s","h","o","u","l","d"," ","f","i","l","e"," ","j","o","i","n","t","l","y",".">>

\* 'They chose Joint Assessment.'
S_UPPER_FORBIDDEN ==
    <<"T","h","e","y"," ","c","h","o","s","e"," ","J","o","i","n","t"," ","A","s","s","e","s","s","m","e","n","t",".">>

\* The literals of GroundedJointAssessmentDomain.construct_template.
\* 'Person A and Person B are not married.'
T_NOT_MARRIED ==
    <<"P","e","r","s","o","n"," ","A"," ","a","n","d"," ","P","e","r","s","o","n"," ","B"," ","a","r","e"," ","n","o","t"," ","m","a","r","r","i","e","d",".">>

\* 'Person A has a taxable income of '
P_A_INCOME ==
    <<"P","e","r","s","o","n"," ","A"," ","h","a","s"," ","a"," ","t","a","x","a","b","l","e"," ","i","n","c","o","m","e"," ","o","f"," ">>

\* 'Person B has a taxable income of '
P_B_INCOME ==
    <<"P","e","r","s","o","n"," ","B"," ","h","a","s"," ","a"," ","t","a","x","a","b","l","e"," ","i","n","c","o","m","e"," ","o","f"," ">>

\* ' euros.'
P_EUROS ==
    <<" ","e","u","r","o","s",".">>

\* 'Person A is not fully liable for tax in Germany.'
T_A_NOT_LIABLE ==
    <<"P","e","r","s","o","n"," ","A"," ","i","s"," ","n","o","t"," ","f","u","l","l","y"," ","l","i","a","b","l","e"," ","f","o","r"," ","t","a","x"," ","i","n"," ","G","e","r","m","a","n","y",".">>

\* 'Person B is not fully liable for tax in Germany.'
T_B_NOT_LIABLE ==
    <<"P","e","r","s","o","n"," ","B"," ","i","s"," ","n","o","t"," ","f","u","l","l","y"," ","l","i","a","b","l","e"," ","f","o","r"," ","t","a","x"," ","i","n"," ","G","e","r","m","a","n","y",".">>

\* 'The couple did not live together at any point during the year.'
T_NOT_LIVED_TOGETHER ==
    <<"T","h","e"," ","c","o","u","p","l","e"," ","d","i","d"," ","n","o","t"," ","l","i","v","e"," ","t","o","g","e","t","h","e","r"," ","a","t"," ","a","n","y"," ","p","o","i","n","t"," ","d","u","r","i","n","g"," ","t","h","e"," ","y","e","a","r",".">>

\* 'Person A received '
P_A_RECEIVED ==
    <<"P","e","r","s","o","n"," ","A"," ","r","e","c","e","i","v","e","d"," ">>

\* 'Person B received '
P_B_RECEIVED ==
    <<"P","e","r","s","o","n"," ","B"," ","r","e","c","e","i","v","e","d"," ">>

\* ' euros in wage replacement benefits.'
P_WAGE_REPLACEMENT ==
    <<" ","e","u","r","o","s"," ","i","n"," ","w","a","g","e"," ","r","e","p","l","a","c","e","m","e","n","t"," ","b","e","n","e","f","i","t","s",".">>

\* 'Person A paid '
P_A_PAID ==
    <<"P","e","r","s","o","n"," ","A"," ","p","a","i","d"," ">>

\* 'Person B paid '
P_B_PAID ==
    <<"P","e","r","s","o","n"," ","B"," ","p","a","i","d"," ">>

\* ' euros in medical costs out of pocket.'
P_MEDICAL ==
    <<" ","e","u","r","o","s"," ","i","n"," ","m","e","d","i","c","a","l"," ","c","o","s","t","s"," ","o","u","t"," ","o","f"," ","p","o","c","k","e","t",".">>

\* 'The church tax rate is '
P_CHURCH_RATE ==
    <<"T","h","e"," ","c","h","u","r","c","h"," ","t","a","x"," ","r","a","t","e"," ","i","s"," ">>

\* ' percent.'
P_PERCENT ==
    <<" ","p","e","r","c","e","n","t",".">>

\* 'Both Person A and Person B are members of a church that requires church tax.'
T_BOTH_CHURCH ==
    <<"B","o","t","h"," ","P","e","r","s","o","n"," ","A"," ","a","n","d"," ","P","e","r","s","o","n"," ","B"," ","a","r","e"," ","m","e","m","b","e","r","s"," ","o","f"," ","a"," ","c","h","u","r","c","h"," ","t","h","a","t"," ","r","e","q","u","i","r","e","s"," ","c","h","u","r","c","h"," ","t","a","x",".">>

\* 'Only Person A is a member of a church that requires church tax.'
T_ONLY_A_CHURCH ==
    <<"O","n","l","y"," ","P","e","r","s","o","n"," ","A"," ","i","s"," ","a"," ","m","e","m","b","e","r"," ","o","f"," ","a"," ","c","h","u","r","c","h"," ","t","h","a","t"," ","r","e","q","u","i","r","e","s"," ","c","h","u","r","c","h"," ","t","a","x",".">>

\* 'Only Person B is a member of a church that requires church tax.'
T_ONLY_B_CHURCH ==
    <<"O","n","l","y"," ","P","e","r","s","o","n"," ","B"," ","i","s"," ","a"," ","m","e","m","b","e","r"," ","o","f"," ","a"," ","c","h","u","r","c","h"," ","t","h","a","t"," ","r","e","q","u","i","r","e","s"," ","c","h","u","r","c","h"," ","t","a","x",".">>

\* 'Person A is working as a '
P_A_WORKING ==
    <<"P","e","r","s","o","n"," ","A"," ","i","s"," ","w","o","r","k","i","n","g"," ","a","s"," ","a"," ">>

\* 'Person B is working as a '
P_B_WORKING ==
    <<"P","e","r","s","o","n"," ","B"," ","i","s"," ","w","o","r","k","i","n","g"," ","a","s"," ","a"," ">>

\* 'The couple has '
P_COUPLE_HAS ==
    <<"T","h","e"," ","c","o","u","p","l","e"," ","h","a","s"," ">>

\* ' child'
P_CHILD ==
    <<" ","c","h","i","l","d">>

\* 'ren'
P_REN ==
    <<"r","e","n">>

\* '.'
P_DOT ==
    <<".">>

\* '.0'
P_POINT_ZERO ==
    <<".","0">>

\* '0123456789'
DIGITS ==
    <<"0","1","2","3","4","5","6","7","8","9">>

\* JOBS[1]
J_TEACHER ==
    <<"T","e","a","c","h","e","r">>

\* JOBS[4]
J_CHEF ==
    <<"C","h","e","f">>




UpperCase == <<"A","B","C","D","E","F","G","H","I","J","K","L","M",
               "N","O","P","Q","R","S","T","U","V","W","X","Y","Z">>
LowerCase == <<"a","b","c","d","e","f","g","h","i","j","k","l","m",
               "n","o","p","q","r","s","t","u","v","w","x","y","z">>

\* str.lower() of one character.
LowerChar(c) ==
    IF \E i \in 1..26 : UpperCase[i] = c
    THEN LowerCase[CHOOSE i \in 1..26 : UpperCase[i] = c]
    ELSE c

\* The mutant of Lower: no case folding.
LowerIdentity(s) == s

\* s.lower()
Lower(s) == [i \in 1..Len(s) |-> LowerChar(s[i])]

\* The characters str.strip() removes.
IsSpace(c) == c \in {" ", "\t", "\n", "\r"}

RECURSIVE LStrip(_)
LStrip(s) == IF s # <<>> /\ IsSpace(Head(s)) THEN LStrip(Tail(s)) ELSE s

RECURSIVE RStrip(_)
RStrip(s) ==
    IF s # <<>> /\ IsSpace(s[Len(s)]) THEN RStrip(SubSeq(s, 1, Len(s) - 1)) ELSE s

\* s.strip()
Strip(s) == RStrip(LStrip(s))

\* s.startswith(prefix)
StartsWith(s, prefix) ==
    Len(s) >= Len(prefix) /\ SubSeq(s, 1, Len(prefix)) = prefix

\* s[len(prefix):]
After(s, prefix) == SubSeq(s, Len(prefix) + 1, Len(s))

\* s.replace('"', '')
DropQuotes(s) == SelectSeq(s, LAMBDA c : c # "\"")

\* word in s
Contains(s, word) ==
    \E i \in 1..(Len(s) - Len(word) + 1) : SubSeq(s, i, i + Len(word) - 1) = word

\* s.split("\n"): the pieces between the newlines, empty ones included.
RECURSIVE Split(_)
Split(s) ==
    IF \A i \in 1..Len(s) : s[i] # "\n" THEN <<s>>
    ELSE LET k == CHOOSE i \in 1..Len(s) :
                      s[i] = "\n" /\ \A j \in 1..(i - 1) : s[j] # "\n"
         IN  <<SubSeq(s, 1, k - 1)>> \o Split(SubSeq(s, k + 1, Len(s)))

\* "\n".join(raw)
RECURSIVE JoinLines(_)
JoinLines(raw) ==
    IF raw = <<>> THEN <<>>
    ELSE IF Len(raw) = 1 THEN raw[1]
    ELSE raw[1] \o <<"\n">> \o JoinLines(Tail(raw))

\* [line.strip() for line in content.split("\n") if line.strip()]
RECURSIVE StripAll(_)
StripAll(pieces) ==
    IF pieces = <<>> THEN <<>>
    ELSE (IF Strip(pieces[1]) # <<>> THEN <<Strip(pieces[1])>> ELSE <<>>)
         \o StripAll(Tail(pieces))

ResponseLines(content) == StripAll(Split(content))

(***************************************************************************)
(* domain.py: complete_reasoning_tree.  nodes is the heap of ReasoningNode *)
(* objects in creation order, a node's children the list of their indices. *)
(***************************************************************************)

JointDomains == {"joint_assessment", "grounded_joint_assessment"}
Domains      == JointDomains \cup {"home_office_deduction"}

\* forbidden_words of the domain's complete_reasoning_tree; the home-office
\* builder has none.
forbidden_words(d) ==
    IF d \in JointDomains THEN {W_JOINT_ASSESSMENT, W_INDIVIDUAL_ASSESSMENT} ELSE {}

\* The templates handed to the builder: construct_template's of the two
\* ungrounded domains, and the grounded one for a couple without income.
Templates(d) ==
    IF d = "joint_assessment" THEN
        {[gold_facts |-> <<T_JOINT_GOLD>>, diversity_facts |-> <<T_NO_CHILDREN>>,
          answer |-> "joint"],
         [gold_facts |-> <<T_JOINT_GOLD_INDIVIDUAL>>, diversity_facts |-> <<T_TWO_CHILDREN>>,
          answer |-> "individual"]}
    ELSE IF d = "home_office_deduction" THEN
        {[gold_facts |-> <<T_HOME_GOLD>>, diversity_facts |-> <<T_HOME_JOB, T_HOME_ROOMS>>,
          answer |-> "pro-rata"]}
    ELSE
        {[gold_facts |-> <<T_MARRIED, T_A_NO_INCOME, T_B_NO_INCOME, T_LIVED_TOGETHER>>,
          diversity_facts |-> <<T_A_UNEMPLOYED, T_B_UNEMPLOYED, T_NO_CHILDREN>>,
          answer |-> "joint"]}

\* ReasoningNode(statement=..., node_type=...)
ReasoningNode(statement, node_type) ==
    [statement |-> statement, node_type |-> node_type, children |-> <<>>]

\* The statement of the root the builder allocates.
RootStatement(d, t) ==
    IF d = "grounded_joint_assessment"
    THEN (IF t.answer = "individual" THEN T_GROUNDED_INDIVIDUAL ELSE T_GROUNDED_JOINT)
    ELSE t.gold_facts[1]

\* The facts seeded as the root's children.
SeedFacts(d, t) ==
    IF d = "grounded_joint_assessment" THEN t.gold_facts \o t.diversity_facts
    ELSE t.diversity_facts

\* root = ReasoningNode(statement=..., node_type="deduced_fact", children=[...])
InitialNodes(d, t) ==
    LET seeds == SeedFacts(d, t)
    IN  <<[statement |-> RootStatement(d, t), node_type |-> "deduced_fact",
           children |-> [i \in 1..Len(seeds) |-> i + 1]]>>
        \o [i \in 1..Len(seeds) |-> ReasoningNode(seeds[i], "story_fact")]

\* formatter.extract_underlying_facts / extract_rule_signals: walk(node) collects
\* the statement of a node of the kind, then walks the children left to right.
RECURSIVE Walk(_, _, _), WalkChildren(_, _, _)
Walk(ns, n, kind) ==
    (IF ns[n].node_type = kind THEN <<ns[n].statement>> ELSE <<>>)
    \o WalkChildren(ns, ns[n].children, kind)
WalkChildren(ns, cs, kind) ==
    IF cs = <<>> THEN <<>>
    ELSE Walk(ns, Head(cs), kind) \o WalkChildren(ns, Tail(cs), kind)

\* seq without the later copies of a statement.
RECURSIVE Dedup(_)
Dedup(seq) ==
    IF seq = <<>> THEN <<>>
    ELSE LET front == Dedup(SubSeq(seq, 1, Len(seq) - 1))
             last  == seq[Len(seq)]
         IN  IF \E i \in 1..Len(front) : front[i] = last THEN front ELSE Append(front, last)

\* The mutant of extract_underlying_facts: a statement is returned once however
\* many story_fact nodes carry it.
extract_underlying_facts_unique(ns) == Dedup(Walk(ns, 1, "story_fact"))

extract_underlying_facts(ns) == Walk(ns, 1, "story_fact")
extract_rule_signals(ns)     == Walk(ns, 1, "rule_fact")

\* f"{node.node_type}": the characters of a kind.
NodeTypeText(node_type) ==
    CASE node_type = "story_fact"   -> <<"s","t","o","r","y","_","f","a","c","t">>
      [] node_type = "rule_fact"    -> <<"r","u","l","e","_","f","a","c","t">>
      [] node_type = "deduced_fact" -> <<"d","e","d","u","c","e","d","_","f","a","c","t">>

\* "  " * depth
RECURSIVE Indent(_)
Indent(depth) == IF depth = 0 THEN <<>> ELSE <<" ", " ">> \o Indent(depth - 1)

\* f"{indent}- {node.statement} ({node.node_type})"
TraceLine(node, depth) ==
    Indent(depth) \o <<"-", " ">> \o node.statement \o <<" ", "(">>
        \o NodeTypeText(node.node_type) \o <<")">>

\* A walk that takes the children of a node from right to left.
RECURSIVE TraceWalkReversed(_, _, _), TraceWalkChildrenReversed(_, _, _)
TraceWalkReversed(ns, n, depth) ==
    <<TraceLine(ns[n], depth)>> \o TraceWalkChildrenReversed(ns, ns[n].children, depth + 1)
TraceWalkChildrenReversed(ns, cs, depth) ==
    IF cs = <<>> THEN <<>>
    ELSE TraceWalkReversed(ns, cs[Len(cs)], depth)
         \o TraceWalkChildrenReversed(ns, SubSeq(cs, 1, Len(cs) - 1), depth)

\* formatter.format_reasoning_trace: walk(node, depth) appends the line of the node,
\* then walks the children left to right one level deeper.
RECURSIVE TraceWalk(_, _, _), TraceWalkChildren(_, _, _)
TraceWalk(ns, n, depth) ==
    <<TraceLine(ns[n], depth)>> \o TraceWalkChildren(ns, ns[n].children, depth + 1)
TraceWalkChildren(ns, cs, depth) ==
    IF cs = <<>> THEN <<>>
    ELSE TraceWalk(ns, Head(cs), depth) \o TraceWalkChildren(ns, Tail(cs), depth)

\* The mutant of format_reasoning_trace: the children walked from right to left.
format_reasoning_trace_reversed(ns) == JoinLines(TraceWalkReversed(ns, 1, 0))

\* formatter.format_reasoning_trace(tree): "\n".join(trace_lines)
format_reasoning_trace(ns) == JoinLines(TraceWalk(ns, 1, 0))

\* The mutant of story_facts: the story facts of the template, collected once
\* before expansion starts.
story_facts_cached(ns) == extract_underlying_facts(InitialNodes(domain, story_template))

\* expand_node: story_facts = formatter.extract_underlying_facts(ReasoningTree(root=root))
story_facts(ns) == extract_underlying_facts(ns)

\* The mutant of ShouldExpand: the bound off by one.
ShouldExpandOneDeeper(depth, md) == depth <= md + 1

\* The mutant of ShouldExpand: no test of the depth at all.
ShouldExpandAlways(depth, md) == TRUE

\* expand_node: if depth <= self.max_depth
ShouldExpand(depth, md) == depth <= md

\* expand_node: the node_type of the child a "Story Fact:" line makes.
StoryNodeType(d, story_fact) ==
    IF \E bad_word \in forbidden_words(d) : Contains(Lower(story_fact), bad_word)
    THEN "deduced_fact" ELSE "story_fact"

\* Bounds of the oracle: at most MaxLines lines in a response, at most MaxNew lines
\* in all the responses of one build; self.max_depth is at most MaxDepth.
MaxDepth == 2
MaxLines == 2
MaxNew   == 3

\* The lines the oracle writes.
RawLines == {L_FILE_JOINTLY, L_UPPER_FORBIDDEN, L_PLAIN_STORY, L_RULE, L_EMPTY_STORY, L_OTHER}

RECURSIVE PendingLines(_)
PendingLines(st) == IF st = <<>> THEN 0 ELSE Len(Head(st).lines) + PendingLines(Tail(st))

\* How many lines the oracle may still write: MaxNew for a tree built alone, one
\* for each tree of a batch of generate_examples.
Room == (IF gen.pc = "idle" THEN MaxNew ELSE Min(MaxNew, 1))
            - (Len(nodes) - Len(InitialNodes(domain, story_template)))
            - PendingLines(stack)

Top == stack[Len(stack)]
Pop == SubSeq(stack, 1, Len(stack) - 1)

\* The mutant of expand_node: the call for a new child is put off until the calls
\* in progress have returned.
expand_node_deferred(st, frame) == <<frame>> \o st

\* expand_node(story_node, depth + 1): the call is entered at once, on top of the
\* call that makes it.
expand_node(st, frame) == Append(st, frame)

\* The mutant of append_rule_node: the rule node is recursed into as a story node
\* is.
append_rule_node_expanded(st, frame) == expand_node(st, frame)

\* The "Rule:" branch after node.children.append(rule_node): the loop goes on with
\* the next line, expand_node is not called for the rule node.
append_rule_node(st, frame) == st

\* The mutant of Append_child: the child is put in front of its siblings.
Append_child_front(ns, parent, child) ==
    Append([ns EXCEPT ![parent].children = <<Len(ns) + 1>> \o @], child)

\* The mutant of Append_child: a child whose statement a sibling already has is
\* not appended.
Append_child_unique(ns, parent, child) ==
    IF \E i \in 1..Len(ns[parent].children) :
           ns[ns[parent].children[i]].statement = child.statement
    THEN ns
    ELSE Append([ns EXCEPT ![parent].children = Append(@, Len(ns) + 1)], child)

\* node.children.append(child) for a freshly allocated child.
Append_child(ns, parent, child) ==
    Append([ns EXCEPT ![parent].children = Append(@, Len(ns) + 1)], child)

Init ==
    /\ domain \in Domains
    /\ max_depth \in 0..MaxDepth
    /\ story_template \in Templates(domain)
    /\ nodes = <<>> /\ stack = <<>> /\ tpc = "start" /\ calls = <<>>
    /\ TaxIdle /\ CoupleIdle /\ GenIdle

\* complete_reasoning_tree up to the call expand_node(root).
Start ==
    /\ tpc = "start"
    /\ nodes' = InitialNodes(domain, story_template)
    /\ stack' = <<[node |-> 1, depth |-> 0, pc |-> "enter", lines |-> <<>>]>>
    /\ tpc' = "expanding"
    /\ calls' = <<>>
    /\ UNCHANGED <<domain, max_depth, story_template, taxVars, coupleVars, genVars>>

\* expand_node with depth <= max_depth: the oracle is invoked, answers with one of
\* the given responses (each a sequence of raw lines), and the response is split
\* into lines.
InvokeReturning(responses) ==
    /\ tpc = "expanding" /\ stack # <<>> /\ Top.pc = "enter"
    /\ ShouldExpand(Top.depth, max_depth)
    /\ \E raw \in responses :
          stack' = [stack EXCEPT ![Len(stack)].pc = "loop",
                                 ![Len(stack)].lines = ResponseLines(JoinLines(raw))]
    /\ calls' = Append(calls, [node |-> Top.node, size |-> Len(nodes),
                               story_facts |-> story_facts(nodes), failed |-> FALSE])
    /\ UNCHANGED <<domain, max_depth, story_template, nodes, tpc, taxVars, coupleVars, genVars>>

\* The oracle call of a tree whose oracle writes at most Room more lines.
Invoke == InvokeReturning(UNION {[1..k -> RawLines] : k \in 0..Min(MaxLines, Room)})

\* The mutant of oracle_failure: the exception is caught in the call that made the
\* oracle call, which returns as if the response had been empty.
oracle_failure_caught(st) == [tpc |-> "expanding", stack |-> SubSeq(st, 1, Len(st) - 1)]

\* generation_chain.invoke raises: neither expand_node nor complete_reasoning_tree
\* has a try statement, so every call of expand_node in progress is left and the
\* exception leaves complete_reasoning_tree.
oracle_failure(st) == [tpc |-> "raised", stack |-> <<>>]

\* expand_node with depth <= max_depth, the oracle call raising an exception.
InvokeFails ==
    /\ tpc = "expanding" /\ stack # <<>> /\ Top.pc = "enter"
    /\ ShouldExpand(Top.depth, max_depth)
    /\ calls' = Append(calls, [node |-> Top.node, size |-> Len(nodes),
                               story_facts |-> story_facts(nodes), failed |-> TRUE])
    /\ tpc' = oracle_failure(stack).tpc
    /\ stack' = oracle_failure(stack).stack
    /\ UNCHANGED <<domain, max_depth, story_template, nodes, taxVars, coupleVars, genVars>>

\* expand_node with depth > max_depth returns at once.
TooDeep ==
    /\ tpc = "expanding" /\ stack # <<>> /\ Top.pc = "enter"
    /\ ~ShouldExpand(Top.depth, max_depth)
    /\ stack' = Pop
    /\ UNCHANGED <<domain, max_depth, story_template, nodes, tpc, calls, taxVars, coupleVars, genVars>>

\* One turn of the loop on a line that starts with "Story Fact:".
StoryLine ==
    /\ tpc = "expanding" /\ stack # <<>> /\ Top.pc = "loop" /\ Top.lines # <<>>
    /\ StartsWith(Head(Top.lines), STORY_PREFIX)
    /\ \E story_fact \in {DropQuotes(Strip(After(Head(Top.lines), STORY_PREFIX)))} :
       LET rest == [stack EXCEPT ![Len(stack)].lines = Tail(@)]
       IN  IF story_fact # <<>>
           THEN /\ nodes' = Append_child(nodes, Top.node,
                                ReasoningNode(story_fact, StoryNodeType(domain, story_fact)))
                /\ stack' = expand_node(rest, [node |-> Len(nodes) + 1, depth |-> Top.depth + 1,
                                               pc |-> "enter", lines |-> <<>>])
           ELSE /\ nodes' = nodes
                /\ stack' = rest
    /\ UNCHANGED <<domain, max_depth, story_template, tpc, calls, taxVars, coupleVars, genVars>>

\* One turn of the loop on a line that starts with "Rule:".
RuleLine ==
    /\ tpc = "expanding" /\ stack # <<>> /\ Top.pc = "loop" /\ Top.lines # <<>>
    /\ ~StartsWith(Head(Top.lines), STORY_PREFIX)
    /\ StartsWith(Head(Top.lines), RULE_PREFIX)
    /\ LET rule_fact == DropQuotes(Strip(After(Head(Top.lines), RULE_PREFIX)))
           rest == [stack EXCEPT ![Len(stack)].lines = Tail(@)]
       IN  IF rule_fact # <<>>
           THEN /\ nodes' = Append_child(nodes, Top.node, ReasoningNode(rule_fact, "rule_fact"))
                /\ stack' = append_rule_node(rest, [node |-> Len(nodes) + 1,
                                                    depth |-> Top.depth + 1,
                                                    pc |-> "enter", lines |-> <<>>])
           ELSE /\ nodes' = nodes
                /\ stack' = rest
    /\ UNCHANGED <<domain, max_depth, story_template, tpc, calls, taxVars, coupleVars, genVars>>

\* One turn of the loop on a line with neither prefix.
OtherLine ==
    /\ tpc = "expanding" /\ stack # <<>> /\ Top.pc = "loop" /\ Top.lines # <<>>
    /\ ~StartsWith(Head(Top.lines), STORY_PREFIX)
    /\ ~StartsWith(Head(Top.lines), RULE_PREFIX)
    /\ stack' = [stack EXCEPT ![Len(stack)].lines = Tail(@)]
    /\ UNCHANGED <<domain, max_depth, story_template, nodes, tpc, calls, taxVars, coupleVars, genVars>>

\* The loop is over: expand_node returns.
Return ==
    /\ tpc = "expanding" /\ stack # <<>> /\ Top.pc = "loop" /\ Top.lines = <<>>
    /\ stack' = Pop
    /\ UNCHANGED <<domain, max_depth, story_template, nodes, tpc, calls, taxVars, coupleVars, genVars>>

\* return ReasoningTree(root=root)
Finish ==
    /\ tpc = "expanding" /\ stack = <<>>
    /\ tpc' = "done"
    /\ UNCHANGED <<domain, max_depth, story_template, nodes, stack, calls, taxVars, coupleVars, genVars>>

Next ==
    Start \/ Invoke \/ InvokeFails \/ TooDeep \/ StoryLine \/ RuleLine \/ OtherLine \/ Return \/ Finish

Spec == Init /\ [][Next]_vars

\* The node whose children list holds n.
Parent(ns, n) ==
    CHOOSE m \in 1..Len(ns) : \E i \in 1..Len(ns[m].children) : ns[m].children[i] = n

\* The depth of node n, the root at depth 0.
RECURSIVE Depth(_, _)
Depth(ns, n) == IF n = 1 THEN 0 ELSE 1 + Depth(ns, Parent(ns, n))

\* The nodes expansion created: those after the root and the seeded facts.
ExpansionNodes ==
    {n \in 1..Len(nodes) : n > Len(InitialNodes(domain, story_template))}

\* C8: no node of the tree is deeper than max_depth + 1, and a node at depth
\* max_depth + 1 has no children (while the tree is built and when it is returned).
C8_DepthBound ==
    \A n \in 1..Len(nodes) :
        /\ Depth(nodes, n) <= max_depth + 1
        /\ Depth(nodes, n) = max_depth + 1 => nodes[n].children = <<>>

\* C8 witness: a tree built with max_depth = 2 was returned with a node at depth 3.
C8_Witness ==
    /\ tpc = "done" /\ max_depth = 2
    /\ \E n \in 1..Len(nodes) : Depth(nodes, n) = 3

\* A lower-case letter paired with its capital.
CasePairs == {<<LowerCase[i], UpperCase[i]>> : i \in 1..26}

\* The character c is the lower-case character w, or its capital.
SameLetter(c, w) == c = w \/ <<w, c>> \in CasePairs

\* text contains word, letters compared without regard to case.
ContainsIgnoringCase(text, word) ==
    \E i \in 1..(Len(text) - Len(word) + 1) :
        \A k \in 1..Len(word) : SameLetter(text[i + k - 1], word[k])

HasForbiddenTerm(text) ==
    \/ ContainsIgnoringCase(text, W_JOINT_ASSESSMENT)
    \/ ContainsIgnoringCase(text, W_INDIVIDUAL_ASSESSMENT)

\* C9: in the joint-assessment domains a child made from a "Story Fact:" line is a
\* deduced_fact when its text contains "joint assessment" or "individual
\* assessment" in any case, and a story_fact otherwise; so no story_fact made by
\* expansion, and no extracted story fact other than the seeded ones, contains a
\* forbidden term.
C9_ForbiddenTerms ==
    domain \in JointDomains /\ nodes # <<>> =>
        /\ \A n \in ExpansionNodes :
              \/ nodes[n].node_type = "rule_fact"
              \/ /\ nodes[n].node_type \in {"deduced_fact", "story_fact"}
                 /\ nodes[n].node_type = "deduced_fact" <=> HasForbiddenTerm(nodes[n].statement)
        /\ LET facts == extract_underlying_facts(nodes)
               seeds == SeedFacts(domain, story_template)
           IN  \A i \in 1..Len(facts) :
                  \/ \E k \in 1..Len(seeds) : seeds[k] = facts[i]
                  \/ ~HasForbiddenTerm(facts[i])

\* C9 witness: a joint-assessment tree was returned in which the line naming
\* "Joint Assessment" in capitals became a deduced_fact and another line a story_fact.
C9_Witness ==
    /\ tpc = "done" /\ domain \in JointDomains
    /\ \E n \in ExpansionNodes :
          nodes[n].statement = S_UPPER_FORBIDDEN /\ nodes[n].node_type = "deduced_fact"
    /\ \E n \in ExpansionNodes : nodes[n].node_type = "story_fact"

\* C10: in the joint-assessment domains the response line
\* Story Fact: "The couple should file jointly." produces a child of kind
\* deduced_fact, not story_fact.
C10_FileJointlyDeduced ==
    [][(/\ domain \in JointDomains
        /\ stack # <<>> /\ Top.pc = "loop" /\ Top.lines # <<>>
        /\ Head(Top.lines) = L_FILE_JOINTLY)
       => /\ Len(nodes') = Len(nodes) + 1
          /\ nodes'[Len(nodes')].statement = S_FILE_JOINTLY
          /\ nodes'[Len(nodes')].node_type = "deduced_fact"]_vars


\* How many indices of seq hold x.
Count(seq, x) == Cardinality({i \in 1..Len(seq) : seq[i] = x})

\* The story_fact nodes of the tree.
StoryNodes(ns) == {n \in 1..Len(ns) : ns[n].node_type = "story_fact"}

\* C11: extract_underlying_facts returns one entry per story_fact node of the tree,
\* that node's statement, and nothing for a node of another kind: the returned
\* list is as long as the tree has story_fact nodes and holds every statement as
\* many times as story_fact nodes carry it.
C11_ExtractionRoundTrip ==
    nodes # <<>> =>
        LET facts == extract_underlying_facts(nodes)
        IN  /\ Len(facts) = Cardinality(StoryNodes(nodes))
            /\ \A n \in 1..Len(nodes) :
                  Count(facts, nodes[n].statement)
                    = Cardinality({m \in StoryNodes(nodes) : nodes[m].statement = nodes[n].statement})

\* C11 witness: a returned tree in which two story_fact nodes carry the same
\* statement, one of them below the other, next to a node of another kind.
C11_Witness ==
    /\ tpc = "done"
    /\ \E m, n \in StoryNodes(nodes) :
          /\ m # n /\ nodes[m].statement = nodes[n].statement
          /\ \E i \in 1..Len(nodes[m].children) : nodes[m].children[i] = n
    /\ \E r \in ExpansionNodes : nodes[r].node_type = "rule_fact"


(***************************************************************************)
(* SpecGrounded: GroundedJointAssessmentDomain, from the sampled couple to *)
(* the returned tree.                                                      *)
(***************************************************************************)

\* str(n) for an int n >= 0
RECURSIVE NumStr(_)
NumStr(n) ==
    IF n < 10 THEN <<DIGITS[n + 1]>>
    ELSE NumStr(n \div 10) \o <<DIGITS[(n % 10) + 1]>>

\* str(x) for a float x that holds the whole number n: the fields of Person and
\* church_tax_rate * 100 are floats.
FloatStr(n) == NumStr(n) \o P_POINT_ZERO

JOBS == {J_TEACHER, J_CHEF}

\* <<x>> when cond holds: a conditional gold_facts.append(x)
Opt(cond, x) == IF cond THEN <<x>> ELSE <<>>

\* construct_template reads couple_facts.income when Person A has an income; the
\* read raises AttributeError when the couple input has no such field.
RaisesAttributeError(couple_facts) ==
    couple_facts.a.income > 0 /\ "income" \notin DOMAIN couple_facts

\* The mutant of eligible_for_joint: cohabitation not required.
eligible_for_joint_apart(couple_facts) ==
    /\ couple_facts.married
    /\ couple_facts.a.fully_liable_for_tax /\ couple_facts.b.fully_liable_for_tax

\* construct_template: eligible_for_joint
eligible_for_joint(couple_facts) ==
    /\ couple_facts.married
    /\ couple_facts.a.fully_liable_for_tax /\ couple_facts.b.fully_liable_for_tax
    /\ couple_facts.live_together

\* construct_template: answer
grounded_answer(couple_facts, assessment_result) ==
    IF ~eligible_for_joint(couple_facts) THEN "individual"
    ELSE assessment_result.recommendation

\* construct_template: gold_facts
grounded_gold_facts(couple_facts) ==
    LET a == couple_facts.a
        b == couple_facts.b
    IN  << IF couple_facts.married THEN T_MARRIED ELSE T_NOT_MARRIED,
           IF a.income > 0 THEN P_A_INCOME \o FloatStr(couple_facts.income) \o P_EUROS
                           ELSE T_A_NO_INCOME,
           IF b.income > 0 THEN P_B_INCOME \o FloatStr(b.income) \o P_EUROS
                           ELSE T_B_NO_INCOME >>
        \o Opt(~a.fully_liable_for_tax, T_A_NOT_LIABLE)
        \o Opt(~b.fully_liable_for_tax, T_B_NOT_LIABLE)
        \o <<IF ~couple_facts.live_together THEN T_NOT_LIVED_TOGETHER ELSE T_LIVED_TOGETHER>>
        \o Opt(a.wage_replacement > 0,
               P_A_RECEIVED \o FloatStr(a.wage_replacement) \o P_WAGE_REPLACEMENT)
        \o Opt(b.wage_replacement > 0,
               P_B_RECEIVED \o FloatStr(b.wage_replacement) \o P_WAGE_REPLACEMENT)
        \o Opt(a.medical_costs > 0, P_A_PAID \o FloatStr(a.medical_costs) \o P_MEDICAL)
        \o Opt(b.medical_costs > 0, P_B_PAID \o FloatStr(b.medical_costs) \o P_MEDICAL)
        \o (IF a.pays_church_tax \/ b.pays_church_tax
            THEN <<P_CHURCH_RATE \o FloatStr(couple_facts.church_tax_rate) \o P_PERCENT,
                   IF a.pays_church_tax /\ b.pays_church_tax THEN T_BOTH_CHURCH
                   ELSE IF a.pays_church_tax THEN T_ONLY_A_CHURCH
                   ELSE T_ONLY_B_CHURCH>>
            ELSE <<>>)

\* construct_template: diversity_facts
grounded_diversity_facts(couple_facts, job_a, job_b) ==
    << IF couple_facts.a.income > 0 THEN P_A_WORKING \o job_a ELSE T_A_UNEMPLOYED,
       IF couple_facts.b.income > 0 THEN P_B_WORKING \o job_b ELSE T_B_UNEMPLOYED,
       IF couple_facts.children > 0
       THEN P_COUPLE_HAS \o NumStr(couple_facts.children) \o P_CHILD
            \o (IF couple_facts.children > 1 THEN P_REN ELSE <<>>) \o P_DOT
       ELSE T_NO_CHILDREN >>

\* GroundedJointAssessmentDomain.construct_template, when nothing raises
grounded_construct_template(couple_facts, assessment_result, job_a, job_b) ==
    [gold_facts |-> grounded_gold_facts(couple_facts),
     diversity_facts |-> grounded_diversity_facts(couple_facts, job_a, job_b),
     answer |-> grounded_answer(couple_facts, assessment_result),
     meta_data |-> [couple_facts |-> couple_facts]]


\* Values sample_couple_input can return: Person A with an income and, apart,
\* Person A whose drawn income was cut to 0 by max(0, int(...)).
SampledCouples ==
    [a : [income : {40000, 58000}, pays_church_tax : BOOLEAN,
          wage_replacement : {0, 10800, 21600}, medical_costs : {0, 500},
          fully_liable_for_tax : {TRUE}],
     b : [income : {0, 22000}, pays_church_tax : BOOLEAN,
          wage_replacement : {0}, medical_costs : {0, 2000},
          fully_liable_for_tax : {TRUE}],
     church_tax_rate : {9, 8}, married : {TRUE}, children : {0, 2},
     live_together : BOOLEAN]
    \cup
    [a : [income : {0}, pays_church_tax : {TRUE},
          wage_replacement : {21600}, medical_costs : {0},
          fully_liable_for_tax : {TRUE}],
     b : [income : {0, 6000}, pays_church_tax : {FALSE},
          wage_replacement : {0}, medical_costs : {0},
          fully_liable_for_tax : {TRUE}],
     church_tax_rate : {9}, married : {TRUE}, children : {2},
     live_together : BOOLEAN]

\* GroundedJointAssessmentDomain(): max_depth=1
InitGrounded ==
    /\ domain = "grounded_joint_assessment"
    /\ max_depth = 1
    /\ params \in SampledCouples
    /\ assessment = <<>>
    /\ story_template = <<>>
    /\ nodes = <<>> /\ stack = <<>> /\ tpc = "template" /\ calls = <<>>
    /\ TaxIdle /\ GenIdle

\* GroundedJointAssessmentDomain.construct_template, params standing for what
\* sample_couple_input returned.
ConstructTemplate ==
    /\ tpc = "template"
    /\ \E assessment_result \in compare_assessments(params) : \E job_a, job_b \in JOBS :
          /\ assessment' = <<assessment_result>>
          /\ IF RaisesAttributeError(params)
             THEN /\ tpc' = "AttributeError"
                  /\ story_template' = story_template
             ELSE /\ tpc' = "start"
                  /\ story_template' =
                         grounded_construct_template(params, assessment_result, job_a, job_b)
    /\ UNCHANGED <<params, domain, max_depth, nodes, stack, calls, taxVars, genVars>>

NextGrounded ==
    \/ ConstructTemplate
    \/ Start \/ Invoke \/ TooDeep \/ StoryLine \/ RuleLine \/ OtherLine \/ Return \/ Finish

SpecGrounded == InitGrounded /\ [][NextGrounded]_vars

\* construct_template has returned a template.
TemplateReturned == tpc \notin {"template", "AttributeError"}

IncomeStatement(prefix, none, income) ==
    IF income > 0 THEN prefix \o FloatStr(income) \o P_EUROS ELSE none

\* C13: for every sampled couple the grounded construct_template returns, without
\* raising, a template whose gold facts state the taxable income of Person A and of
\* Person B once each, with the sampled couple in the meta data.
C13_GroundedTemplateComplete ==
    /\ tpc # "AttributeError"
    /\ TemplateReturned =>
          /\ Count(story_template.gold_facts,
                   IncomeStatement(P_A_INCOME, T_A_NO_INCOME, params.a.income)) = 1
          /\ Count(story_template.gold_facts,
                   IncomeStatement(P_B_INCOME, T_B_NO_INCOME, params.b.income)) = 1
          /\ story_template.meta_data.couple_facts = params


(***************************************************************************)
(* SpecGenerate: generate_examples, from the call to the return, with      *)
(* CaseGenerator.generate and the stages of the domain inside it.          *)
(***************************************************************************)

\* a narrative the oracle writes
N_STORY ==
    <<"W","e"," ","m","a","r","r","i","e","d"," ","i","n"," ","M","a","y",".">>

\* response.content of the narrative oracle: a text or the empty text.
Narratives == {<<>>, N_STORY}

E_UNKNOWN_DOMAIN  == "ValueError: Unknown domain"
E_EMPTY_NARRATIVE == "ValueError: LLM returned empty narrative"

\* A line of the output file: the JSON text of a case, in the form
\* model_dump_json writes or in another form that parses to the same case.
FileLine(case, canonical) == [case |-> case, canonical |-> canonical]

\* GeneratedCase.model_validate_json(line)
model_validate_json(line) == line.case

\* case.model_dump_json() + "\n"
model_dump_json(case) == FileLine(case, TRUE)

\* domain.assemble_case(story_template, reasoning_tree, narrative)
assemble_case(name, template, tree, narrative) ==
    [domain |-> name,
     answer |-> template.answer,
     rule_signals |-> extract_rule_signals(tree),
     underlying_facts |-> extract_underlying_facts(tree),
     reasoning_trace |-> format_reasoning_trace(tree),
     narrative |-> narrative,
     reasoning_tree |-> tree]

\* Cases written by earlier runs.
OldCase(statement, answer) ==
    assemble_case("joint_assessment", [answer |-> answer],
                  <<[statement |-> statement, node_type |-> "deduced_fact", children |-> <<>>]>>,
                  N_STORY)
OldLines ==
    {<<>>,
     <<FileLine(OldCase(T_JOINT_GOLD, "joint"), TRUE)>>,
     <<FileLine(OldCase(T_JOINT_GOLD, "joint"), TRUE),
       FileLine(OldCase(T_JOINT_GOLD_INDIVIDUAL, "individual"), FALSE)>>}

\* The output directory and file before the call.
FileSystems ==
    {NoFile, [dir |-> TRUE, exists |-> FALSE, lines |-> <<>>]}
    \cup {[dir |-> TRUE, exists |-> TRUE, lines |-> ls] : ls \in OldLines}

\* The arguments of generate_examples.
DomainNames == {"joint_assessment", "home_office_deduction",
                "grounded_joint_assessment", "capital_gains"}
NumSamples  == {0, 1, 2}
OutputDirs  == {"None", "out"}
GenDepths   == {0, 1}

\* The mutant of domain_obj: an unknown name falls back to the joint-assessment domain.
domain_obj_fallback(name) ==
    IF name = "home_office_deduction" THEN "home_office_deduction" ELSE "joint_assessment"

\* generate_examples: the domain object made for the name, or the error raised.
domain_obj(name) ==
    IF name = "joint_assessment" THEN "joint_assessment"
    ELSE IF name = "home_office_deduction" THEN "home_office_deduction"
    ELSE E_UNKNOWN_DOMAIN

\* The mutant of NarrativeReturned: any response is returned.
NarrativeReturnedAlways(content) == TRUE

\* generate_story: if len(response.content) > 0
NarrativeReturned(content) == Len(content) > 0

InitGenerate ==
    /\ gen \in [pc : {"call"}, domain : DomainNames, num_samples : NumSamples,
                output_dir : OutputDirs, max_depth : GenDepths,
                cases : {<<>>}, response : {<<>>}, narrative : {<<>>},
                existing_cases : {<<>>}, written : {0}, oracle_calls : {0}, error : {""}]
    /\ fs0 \in FileSystems
    /\ fs = fs0
    /\ TaxIdle /\ CoupleIdle /\ TreeIdle

\* generate_examples up to the call generator.generate(num_samples)
ResolveDomain ==
    /\ gen.pc = "call"
    /\ IF domain_obj(gen.domain) = E_UNKNOWN_DOMAIN
       THEN /\ gen' = [gen EXCEPT !.pc = "raised", !.error = E_UNKNOWN_DOMAIN]
            /\ UNCHANGED <<domain, max_depth>>
       ELSE /\ gen' = [gen EXCEPT !.pc = IF gen.num_samples > 0 THEN "template" ELSE "generated"]
            /\ domain' = domain_obj(gen.domain)
            /\ max_depth' = gen.max_depth
    /\ UNCHANGED <<story_template, nodes, stack, tpc, calls, fs, fs0, taxVars, coupleVars>>

\* generate, stage 1: story_template = self.domain.construct_template()
GenConstructTemplate ==
    /\ gen.pc = "template"
    /\ story_template' \in Templates(domain)
    /\ nodes' = <<>> /\ stack' = <<>> /\ calls' = <<>> /\ tpc' = "start"
    /\ gen' = [gen EXCEPT !.pc = "tree"]
    /\ UNCHANGED <<domain, max_depth, fs, fs0, taxVars, coupleVars>>

\* generate, stage 3: narrative = self.domain.generate_story(reasoning_tree, self.llm)
GenerateStory ==
    /\ gen.pc = "tree" /\ tpc = "done"
    /\ \E content \in Narratives :
          gen' = IF NarrativeReturned(content)
                 THEN [gen EXCEPT !.pc = "assemble", !.response = content, !.narrative = content,
                                  !.oracle_calls = @ + Len(calls) + 1]
                 ELSE [gen EXCEPT !.pc = "raised", !.response = content,
                                  !.error = E_EMPTY_NARRATIVE,
                                  !.oracle_calls = @ + Len(calls) + 1]
    /\ UNCHANGED <<treeVars, fs, fs0, taxVars, coupleVars>>

\* generate, final assembly: cases.append(case), and the head of the loop
AssembleCase ==
    /\ gen.pc = "assemble"
    /\ LET case == assemble_case(domain, story_template, nodes, gen.narrative)
       IN  gen' = [gen EXCEPT !.cases = Append(@, case), !.narrative = <<>>,
                              !.pc = IF Len(gen.cases) + 1 < gen.num_samples
                                     THEN "template" ELSE "generated"]
    /\ story_template' = <<>> /\ nodes' = <<>> /\ stack' = <<>> /\ calls' = <<>>
    /\ tpc' = "idle"
    /\ UNCHANGED <<domain, max_depth, fs, fs0, taxVars, coupleVars>>

\* generate_examples after generate: return at once without an output directory,
\* otherwise output_dir.mkdir(parents=True, exist_ok=True)
Mkdir ==
    /\ gen.pc = "generated"
    /\ IF gen.output_dir = "None"
       THEN gen' = [gen EXCEPT !.pc = "returned"] /\ fs' = fs
       ELSE gen' = [gen EXCEPT !.pc = "read"] /\ fs' = [fs EXCEPT !.dir = TRUE]
    /\ UNCHANGED <<treeVars, fs0, taxVars, coupleVars>>

RECURSIVE MapLines(_)
MapLines(lines) ==
    IF lines = <<>> THEN <<>>
    ELSE <<model_validate_json(Head(lines))>> \o MapLines(Tail(lines))

\* existing_cases: every line of an existing file parsed
ReadExisting ==
    /\ gen.pc = "read"
    /\ gen' = [gen EXCEPT !.pc = "open",
                          !.existing_cases = IF fs.exists THEN MapLines(fs.lines) ELSE <<>>]
    /\ UNCHANGED <<treeVars, fs, fs0, taxVars, coupleVars>>

\* with open(output_path, "w", encoding="utf8") as f
OpenForWrite ==
    /\ gen.pc = "open"
    /\ fs' = [fs EXCEPT !.exists = TRUE, !.lines = <<>>]
    /\ gen' = [gen EXCEPT !.pc = "write", !.written = 0]
    /\ UNCHANGED <<treeVars, fs0, taxVars, coupleVars>>

\* for case in existing_cases: f.write(case.model_dump_json() + "\n")
WriteExisting ==
    /\ gen.pc = "write" /\ gen.written < Len(gen.existing_cases)
    /\ fs' = [fs EXCEPT !.lines = Append(@, model_dump_json(gen.existing_cases[gen.written + 1]))]
    /\ gen' = [gen EXCEPT !.written = @ + 1]
    /\ UNCHANGED <<treeVars, fs0, taxVars, coupleVars>>

\* for case in generated_cases: f.write(case.model_dump_json() + "\n")
WriteGenerated ==
    /\ gen.pc = "write" /\ gen.written >= Len(gen.existing_cases)
    /\ gen.written < Len(gen.existing_cases) + Len(gen.cases)
    /\ fs' = [fs EXCEPT !.lines =
                 Append(@, model_dump_json(gen.cases[gen.written - Len(gen.existing_cases) + 1]))]
    /\ gen' = [gen EXCEPT !.written = @ + 1]
    /\ UNCHANGED <<treeVars, fs0, taxVars, coupleVars>>

\* the file is closed and generate_examples returns generated_cases
ReturnCases ==
    /\ gen.pc = "write" /\ gen.written = Len(gen.existing_cases) + Len(gen.cases)
    /\ gen' = [gen EXCEPT !.pc = "returned"]
    /\ UNCHANGED <<treeVars, fs, fs0, taxVars, coupleVars>>

NextGenerate ==
    \/ ResolveDomain \/ GenConstructTemplate
    \/ Start \/ Invoke \/ TooDeep \/ StoryLine \/ RuleLine \/ OtherLine \/ Return \/ Finish
    \/ GenerateStory \/ AssembleCase
    \/ Mkdir \/ ReadExisting \/ OpenForWrite \/ WriteExisting \/ WriteGenerated \/ ReturnCases

SpecGenerate == InitGenerate /\ [][NextGenerate]_vars


\* The domain names generate_examples recognises.
RecognisedDomains == {"joint_assessment", "home_office_deduction"}

\* C14: generate_examples called with a name that is not a recognised domain raises
\* the unknown-domain error as its first step: no oracle call has been made, no
\* template, tree or case exists, and the output directory and file are as they
\* were before the call.
C14_UnknownDomainFailsFast ==
    gen.pc # "idle" /\ gen.domain \notin RecognisedDomains =>
        /\ gen.pc \in {"call", "raised"}
        /\ gen.pc = "raised" => gen.error = E_UNKNOWN_DOMAIN
        /\ gen.oracle_calls = 0 /\ calls = <<>>
        /\ gen.cases = <<>> /\ nodes = <<>> /\ story_template = <<>> /\ tpc = "idle"
        /\ fs = fs0

\* C14 witness: the call for the unknown name "capital_gains" with two samples and
\* an output directory that does not exist yet has raised.
C14_Witness ==
    /\ gen.pc = "raised" /\ gen.error = E_UNKNOWN_DOMAIN
    /\ gen.domain = "capital_gains" /\ gen.num_samples = 2
    /\ gen.output_dir = "out" /\ ~fs0.dir /\ ~fs.dir

C16_SkipAndContinue ==
    gen.pc # "idle" /\ gen.domain \in RecognisedDomains => gen.pc # "raised"

\* The records of the output file, none when the file does not exist.
Records(f) == IF f.exists THEN f.lines ELSE <<>>

IsPrefix(s, t) == Len(s) <= Len(t) /\ SubSeq(t, 1, Len(s)) = s

\* C17: no step of generate_examples rewrites, truncates or removes a record of the
\* output file: the records the file holds before a step are, unchanged and in the
\* same order, the first records it holds after the step.
C17_AppendOnly ==
    [][IsPrefix(Records(fs), Records(fs'))]_vars


\* The position of node n among the children of its parent.
ChildIndex(ns, n) ==
    LET siblings == ns[Parent(ns, n)].children
    IN  CHOOSE i \in 1..Len(siblings) : siblings[i] = n

\* The child positions on the way from the root to node n.
RECURSIVE PathTo(_, _)
PathTo(ns, n) ==
    IF n = 1 THEN <<>>
    ELSE LET parent   == Parent(ns, n)
             siblings == ns[parent].children
         IN  Append(PathTo(ns, parent), CHOOSE i \in 1..Len(siblings) : siblings[i] = n)

\* The paths of the first k nodes of the tree.
RECURSIVE PathsUpTo(_, _)
PathsUpTo(ns, k) ==
    IF k = 0 THEN <<>> ELSE Append(PathsUpTo(ns, k - 1), PathTo(ns, k))

\* The path of every node of the tree.
Paths(ns) == PathsUpTo(ns, Len(ns))

\* The node with path p comes before the node with path q in the preorder of the
\* tree: it is an ancestor of the other, or at the first position where the paths
\* differ p turns further left.
Before(p, q) ==
    \/ Len(p) < Len(q) /\ SubSeq(q, 1, Len(p)) = p
    \/ \E i \in 1..Min(Len(p), Len(q)) :
          /\ \A k \in 1..(i - 1) : p[k] = q[k]
          /\ p[i] < q[i]

\* The tree as it stood when it had size nodes.
TreeAt(ns, size) ==
    SubSeq([n \in 1..size |-> [ns[n] EXCEPT !.children = SelectSeq(@, LAMBDA c : c <= size)]],
           1, size)

\* The nodes of S in the preorder of the tree, path holding the path of every node.
RECURSIVE InPreorder(_, _)
InPreorder(S, path) ==
    IF S = {} THEN <<>>
    ELSE LET first == CHOOSE n \in S : \A m \in S \ {n} : Before(path[n], path[m])
         IN  <<first>> \o InPreorder(S \ {first}, path)

\* The statements of the story_fact nodes of a tree in preorder.
PreorderStoryFacts(ns) ==
    LET order == InPreorder(StoryNodes(ns), Paths(ns))
    IN  [i \in 1..Len(order) |-> ns[order[i]].statement]

\* C18: the story-fact list of every oracle invocation of expand_node holds the
\* statements of the story_fact nodes of the whole tree as it stood at the call, in
\* preorder: those seeded, those appended by earlier calls anywhere in the tree, and
\* the expanded node itself when it is a story_fact.
C18_FreshStoryFacts ==
    \A i \in 1..Len(calls) :
        /\ calls[i].node <= calls[i].size
        /\ calls[i].story_facts = PreorderStoryFacts(TreeAt(nodes, calls[i].size))

\* C18 witness: a returned tree in which a story_fact was expanded after an earlier
\* sibling had got a story_fact child of its own; the list of that invocation holds
\* the seeded facts, the sibling, the sibling's child and the expanded node.
C18_Witness ==
    /\ tpc = "done"
    /\ \E i \in 1..Len(calls) : \E a, a1 \in StoryNodes(nodes) :
          LET b == calls[i].node
          IN  /\ nodes[b].node_type = "story_fact"
              /\ Parent(nodes, a) = 1 /\ Parent(nodes, b) = 1 /\ Parent(nodes, a1) = a
              /\ a < b /\ a1 < b
              /\ Len(calls[i].story_facts) = Len(SeedFacts(domain, story_template)) + 3

\* The nodes of the oracle invocations, in the order of the invocations.
CalledNodes == [i \in 1..Len(calls) |-> calls[i].node]

\* C19: expansion is depth-first and left to right: the calls of expand_node in
\* progress lie on one path from the root, each for the last child appended to the
\* node of the call below it, so no child is appended next to a sibling whose
\* expansion is unfinished; the children made by expansion are allocated in the
\* preorder of the tree, and the oracle invocations follow the preorder too.
C19_DepthFirst ==
    LET path == Paths(nodes)
    IN  /\ stack # <<>> => stack[1].node = 1
        /\ \A i \in 2..Len(stack) :
              LET below == nodes[stack[i - 1].node].children
              IN  below # <<>> /\ below[Len(below)] = stack[i].node
        /\ \A m, n \in ExpansionNodes : m < n => Before(path[m], path[n])
        /\ \A i, j \in 1..Len(calls) :
              i < j => Before(path[calls[i].node], path[calls[j].node])

\* C19 witness: a returned tree whose oracle invocations were, in order, those of
\* the root, its child a, a's child a1, and then a's later sibling b.
C19_Witness ==
    /\ tpc = "done"
    /\ \E a, a1, b \in ExpansionNodes :
          /\ Parent(nodes, a) = 1 /\ Parent(nodes, b) = 1 /\ Parent(nodes, a1) = a
          /\ ChildIndex(nodes, a) < ChildIndex(nodes, b)
          /\ CalledNodes = <<1, a, a1, b>>

\* C20: in a returned tree the oracle was invoked once at every story_fact or
\* deduced_fact node of depth <= max_depth, the facts seeded below the root included.
C20_EveryNodeExpanded ==
    tpc = "done" =>
        \A n \in 1..Len(nodes) :
            (nodes[n].node_type \in {"story_fact", "deduced_fact"}
                /\ Depth(nodes, n) <= max_depth)
            => Count(CalledNodes, n) = 1

(***************************************************************************)
(* Rule nodes, the lines of one response, and how the tree grows.          *)
(***************************************************************************)

\* C21: every rule_fact node is a leaf: it has no children, no call of expand_node
\* is in progress or pending for it, and the oracle was never invoked for it.
C21_RuleFactLeaf ==
    \A n \in 1..Len(nodes) :
        nodes[n].node_type = "rule_fact" =>
            /\ nodes[n].children = <<>>
            /\ \A i \in 1..Len(stack) : stack[i].node # n
            /\ \A i \in 1..Len(calls) : calls[i].node # n

\* C21 witness: a returned tree with a rule_fact node at a depth at which a story
\* node is expanded, and whose later sibling is a story node that was expanded.
C21_Witness ==
    /\ tpc = "done"
    /\ \E n, m \in ExpansionNodes :
          /\ nodes[n].node_type = "rule_fact" /\ Depth(nodes, n) <= max_depth
          /\ nodes[m].node_type = "story_fact" /\ Parent(nodes, m) = Parent(nodes, n)
          /\ n < m /\ Count(CalledNodes, m) = 1

(***************************************************************************)
(* Termination.  SpecTerminates is complete_reasoning_tree with an oracle  *)
(* that is not limited in how many lines it writes over the whole run: on  *)
(* every call it answers with any of PersistentResponses, among them two   *)
(* story facts.  The program is sequential and the oracle call synchronous,*)
(* so a step that can be taken is taken: weak fairness of the next-state   *)
(* relation.                                                               *)
(***************************************************************************)

\* What the oracle may answer, on every call.
PersistentResponses ==
    {<<>>, <<L_PLAIN_STORY>>, <<L_PLAIN_STORY, L_FILE_JOINTLY>>,
     <<L_RULE, L_PLAIN_STORY>>, <<L_OTHER, L_PLAIN_STORY>>}

\* The values of max_depth the domain is constructed with.
TerminationDepths == {0, 1, 2}

InitTerminates ==
    /\ domain \in Domains
    /\ max_depth \in TerminationDepths
    /\ story_template \in Templates(domain)
    /\ nodes = <<>> /\ stack = <<>> /\ tpc = "start" /\ calls = <<>>
    /\ TaxIdle /\ CoupleIdle /\ GenIdle

\* The oracle call of a tree whose oracle answers every call.
InvokePersistent == InvokeReturning(PersistentResponses)

NextTerminates ==
    Start \/ InvokePersistent \/ TooDeep \/ StoryLine \/ RuleLine \/ OtherLine \/ Return \/ Finish

SpecTerminates == InitTerminates /\ [][NextTerminates]_vars /\ WF_vars(NextTerminates)

\* The most lines of one response.
Widest(responses) ==
    CHOOSE w \in {Len(r) : r \in responses} : \A r \in responses : Len(r) <= w

\* 1 + w + w^2 + ... + w^d: the nodes of depth <= d of a tree in which every node
\* has w children.
RECURSIVE Geometric(_, _)
Geometric(w, d) == IF d = 0 THEN 1 ELSE 1 + w * Geometric(w, d - 1)

\* C22: complete_reasoning_tree returns (tpc becomes "done"), whatever the oracle
\* answers; with at most w lines a response it never makes more than
\* 1 + w + ... + w^max_depth oracle invocations, nor more than w new nodes for
\* each of them.
C22_Terminates ==
    LET w == Widest(PersistentResponses)
    IN  /\ <>(tpc = "done")
        /\ [](/\ Len(calls) <= Geometric(w, max_depth)
              /\ Cardinality(ExpansionNodes) <= w * Geometric(w, max_depth))

\* C22 witness: a tree was returned with max_depth = 2 after an oracle that
\* answered every call with two story facts: 7 invocations, 14 new nodes.
C22_Witness ==
    /\ tpc = "done" /\ max_depth = 2
    /\ Len(calls) = 7 /\ Cardinality(ExpansionNodes) = 14
    /\ \A n \in ExpansionNodes : nodes[n].node_type # "rule_fact"

\* The text of a line after its prefix: the surrounding whitespace removed, then
\* the quote characters.
TextAfter(line, prefix) ==
    SelectSeq(Strip(SubSeq(line, Len(prefix) + 1, Len(line))), LAMBDA c : c # "\"")

\* The node a line asks for: one for a line with the story-fact or the rule prefix
\* and a non-empty text, none for any other line.
Usable(line) ==
    LET one == IF StartsWith(line, STORY_PREFIX)
               THEN <<[statement |-> TextAfter(line, STORY_PREFIX), rule |-> FALSE]>>
               ELSE IF StartsWith(line, RULE_PREFIX)
               THEN <<[statement |-> TextAfter(line, RULE_PREFIX), rule |-> TRUE]>>
               ELSE <<>>
    IN  IF one # <<>> /\ one[1].statement # <<>> THEN one ELSE <<>>

\* The children the call of frame has appended to its node so far (the root
\* starts with the facts seeded from the template).
AppendedBy(frame) ==
    LET children == nodes[frame.node].children
        seeded   == IF frame.node = 1
                    THEN Len(InitialNodes(domain, story_template)[1].children) ELSE 0
    IN  SubSeq(children, seeded + 1, Len(children))

\* A call of expand_node is in its loop with a line to process.
AtLine == tpc = "expanding" /\ stack # <<>> /\ Top.pc = "loop" /\ Top.lines # <<>>

\* C23: the lines of a response are non-empty and are taken one by one in their
\* order; the step that takes a line with the story or the rule prefix and a
\* non-empty text appends exactly one node, with that text and of that kind, at the
\* end of the expanded node's children, whether or not a sibling has the same
\* statement; the step that takes any other line leaves the tree as it is and the
\* loop goes on.
C23_OneNodePerUsableLine ==
    [][AtLine =>
        LET line == Head(Top.lines)
            want == Usable(line)
            here == Len(stack)
        IN  /\ line # <<>>
            /\ tpc' = "expanding" /\ Len(stack') >= here
            /\ stack'[here] = [stack[here] EXCEPT !.lines = Tail(@)]
            /\ IF want = <<>>
               THEN nodes' = nodes /\ stack' = [stack EXCEPT ![here].lines = Tail(@)]
               ELSE /\ Len(nodes') = Len(nodes) + 1
                    /\ nodes'[Len(nodes')].statement = want[1].statement
                    /\ (nodes'[Len(nodes')].node_type = "rule_fact") = want[1].rule
                    /\ nodes'[Top.node].children = Append(nodes[Top.node].children, Len(nodes'))
      ]_vars

\* C23 witness: a call is about to pass a line that asks for no node, while a call
\* in progress has appended two nodes with the same statement to its node.
C23_Witness ==
    /\ AtLine /\ Usable(Head(Top.lines)) = <<>>
    /\ \E i \in 1..Len(stack) :
          LET got == AppendedBy(stack[i])
          IN  /\ Len(got) = 2
              /\ nodes[got[1]].statement = nodes[got[2]].statement
              /\ nodes[got[1]].node_type = nodes[got[2]].node_type

\* An oracle call of the log raised an exception.
Failed(log) == \E i \in 1..Len(log) : log[i].failed

\* C24: once an oracle call has failed, complete_reasoning_tree has been left by
\* the exception (no call of expand_node is in progress, no tree is or will be
\* returned); the step of the failure and every later step leave the tree as it
\* was; and every node of the tree always has a non-empty statement and one of
\* the three kinds.
C24_OracleFailurePropagates ==
    /\ [](Failed(calls) => tpc = "raised" /\ stack = <<>>)
    /\ [][Failed(calls') => nodes' = nodes]_vars
    /\ [](\A n \in 1..Len(nodes) :
            /\ nodes[n].statement # <<>>
            /\ nodes[n].node_type \in {"story_fact", "rule_fact", "deduced_fact"})

\* C24 witness: the oracle failed on its third call, for a node two levels below
\* the root, after the tree had grown by at least two nodes.
C24_Witness ==
    /\ tpc = "raised" /\ Len(calls) = 3 /\ calls[3].failed
    /\ Depth(nodes, calls[3].node) = 2
    /\ Cardinality(ExpansionNodes) >= 2

\* The children lists of the first k nodes, one after the other.
RECURSIVE AllChildren(_, _)
AllChildren(ns, k) ==
    IF k = 0 THEN <<>> ELSE AllChildren(ns, k - 1) \o ns[k].children

\* A tree: the children lists together have one entry for each node other than the
\* root and hold every one of them (so the root is nobody's child and every other
\* node is at exactly one place of exactly one list), and every child was created
\* after its parent (so following the parents leads to the root: every node is
\* reachable, there is no cycle).
IsTree(ns) ==
    ns # <<>> =>
        LET all == AllChildren(ns, Len(ns))
        IN  /\ Len(all) = Len(ns) - 1
            /\ \A n \in 2..Len(ns) : \E i \in 1..Len(all) : all[i] = n
            /\ \A m \in 1..Len(ns) :
                  \A i \in 1..Len(ns[m].children) : ns[m].children[i] > m

\* C29: the nodes always form a tree, and a step that changes the tree of a build
\* in progress adds exactly one node, without children, at the end of the children
\* of the node of the innermost call of expand_node, and leaves the statement, the
\* kind and the children of every other node, and the statement, kind and earlier
\* children of that node, as they were.
C29_AppendOnly ==
    /\ [](IsTree(nodes))
    /\ [][(nodes # <<>> /\ nodes' # nodes) =>
            /\ stack # <<>> /\ Top.pc = "loop"
            /\ Len(nodes') = Len(nodes) + 1
            /\ nodes'[Len(nodes')].children = <<>>
            /\ nodes'[Top.node] =
                  [nodes[Top.node] EXCEPT !.children = Append(@, Len(nodes'))]
            /\ \A n \in 1..Len(nodes) : n # Top.node => nodes'[n] = nodes[n]
         ]_vars

\* C29 witness: a returned tree to which expansion added three nodes one after the
\* other: two at the end of the root's children, after the seeded facts, and one
\* below the first of them.
C29_Witness ==
    /\ tpc = "done"
    /\ Len(SeedFacts(domain, story_template)) >= 1
    /\ \E a, a1, b \in ExpansionNodes :
          LET top == nodes[1].children
          IN  /\ Len(top) >= 3
              /\ top[Len(top) - 1] = a /\ top[Len(top)] = b
              /\ nodes[a].children = <<a1>>
              /\ nodes[b].node_type = "rule_fact"

(***************************************************************************)
(* The rate indirection, the medical threshold, negative inputs and the    *)
(* order of the partners.                                                  *)
(***************************************************************************)

\* rate is the rate the claim gives for taxable income t and transfer income w (in
\* cents): 0 when t + w = 0, else the liability on t + w over t + w, the liability
\* being compute_tax(t + w), or 2 * compute_tax((t + w) / 2) in joint mode.
C25_RateIs(rate, t, w, joint) ==
    IF t + w = 0
    THEN rate.zero /\ rate.num = 0
    ELSE /\ ~rate.zero
         /\ rate.den = t + w
         /\ rate.num = IF joint THEN 2 * compute_tax_2025(t + w, 200)
                                ELSE compute_tax_2025(t + w, 100)

\* amount is rate * t, in cents.
C25_Charged(amount, rate, t) ==
    LET qr == MulDiv(100 * rate.num, t, rate.den)
    IN  amount.q = qr[1] /\ amount.r = qr[2] /\ (qr[2] # 0 => amount.d = rate.den)

\* C25: the rate compute_joint_total uses is the joint rate of the combined adjusted
\* income t and the combined transfer income w, the rates compute_individual_total
\* uses are the single rates of each partner's t and w, and the income tax either
\* calculator charges is that rate times t.
C25_ProgressionRate ==
    Assessed =>
        LET j  == assessment[1].joint
            i  == assessment[1].individual
            wa == 100 * Max(0, params.a.wage_replacement)
            wb == 100 * Max(0, params.b.wage_replacement)
        IN  /\ C25_RateIs(j.prate, j.ta + j.tb, wa + wb, TRUE)
            /\ C25_Charged(j.base_total, j.prate, j.ta + j.tb)
            /\ C25_RateIs(i.prate_a, i.ta, wa, FALSE)
            /\ C25_Charged(i.base_a, i.prate_a, i.ta)
            /\ C25_RateIs(i.prate_b, i.tb, wb, FALSE)
            /\ C25_Charged(i.base_b, i.prate_b, i.tb)

\* C25 witness: a couple with transfer income was assessed, and the income tax
\* charged jointly (rate * t) is more than the joint tax on t alone and less than
\* the joint tax on t + w.
C25_Witness ==
    /\ Assessed
    /\ params.a.wage_replacement > 0 /\ params.b.wage_replacement = 0
    /\ LET j == assessment[1].joint
       IN  /\ j.taxable_total > 0
           /\ j.base_total.q > 100 * joint_assessment(j.taxable_total, 100)
           /\ j.base_total.q < 100 * joint_assessment(j.taxable_total + j.wrb_total, 100) - 1

(***************************************************************************)
(* SpecMedical: get_taxable_income_after_medical applied to one person.    *)
(***************************************************************************)

\* Incomes and medical costs in euros: negative ones, zero, the band limits 15340
\* and 51130 with their neighbours, and costs on both sides of the thresholds these
\* incomes have (767.00, 920.46, 3067.80, 3579.17, 5600.00).
MedicalIncomes == {-5000, 0, 1, 10000, 15339, 15340, 15341, 30000, 51129, 51130, 51131, 80000}
MedicalCosts ==
    {-300, 0, 1, 500, 766, 767, 768, 920, 921, 1800, 3067, 3068, 3069, 3579, 3580,
     5600, 5601, 100000}

InitMedical ==
    /\ params \in [income : MedicalIncomes, pays_church_tax : {FALSE},
                    wage_replacement : {0}, medical_costs : MedicalCosts,
                    fully_liable_for_tax : {TRUE}]
    /\ assessment = <<>>
    /\ TaxIdle /\ TreeIdle /\ GenIdle

\* ta = get_taxable_income_after_medical(params.a), for the person alone.
CallMedical ==
    /\ assessment = <<>>
    /\ assessment' = <<[taxable_income_after_medical |->
                            get_taxable_income_after_medical(params)]>>
    /\ UNCHANGED <<params, taxVars, treeVars, genVars>>

NextMedical == CallMedical

SpecMedical == InitMedical /\ [][NextMedical]_vars

\* C26: with income and medical expense clamped at 0, the threshold is 5% of the
\* income up to 15340, 6% up to 51130 and 7% above; the result is the income less
\* the part of the medical expense above the threshold, at least 0; it lies between
\* 0 and the clamped income and is the income when the expense is not above the
\* threshold.  (Euros in, cents out.)
C26_MedicalThreshold ==
    assessment # <<>> =>
        LET result    == assessment[1].taxable_income_after_medical
            income    == IF params.income < 0 THEN 0 ELSE params.income
            medical   == IF params.medical_costs < 0 THEN 0 ELSE params.medical_costs
            percent   == IF income <= 15340 THEN 5 ELSE IF income <= 51130 THEN 6 ELSE 7
            threshold == percent * income
            above     == IF 100 * medical > threshold THEN 100 * medical - threshold ELSE 0
        IN  /\ result = (IF above >= 100 * income THEN 0 ELSE 100 * income - above)
            /\ 0 <= result /\ result <= 100 * income
            /\ (100 * medical <= threshold => result = 100 * income)

\* C26 witness: income 51130 is still in the 6% band (threshold 3067.80), and a
\* medical expense of 3068 lowers it by 0.20.
C26_Witness ==
    /\ assessment # <<>>
    /\ params.income = 51130 /\ params.medical_costs = 3068
    /\ assessment[1].taxable_income_after_medical = 5112980

(***************************************************************************)
(* The three walks of formatter.py.                                        *)
(***************************************************************************)

\* The line the claim gives node n: two spaces for each level of depth, the marker,
\* the statement, a space and the kind in parentheses.
C27_Rendered(n, marker) ==
    [i \in 1..(2 * Depth(nodes, n)) |-> " "] \o marker \o nodes[n].statement
        \o <<" ", "(">> \o NodeTypeText(nodes[n].node_type) \o <<")">>

\* The statements of the nodes of a kind, in the given order of the nodes.
C27_Statements(order, kind) ==
    LET sel == SelectSeq(order, LAMBDA n : nodes[n].node_type = kind)
    IN  [k \in 1..Len(sel) |-> nodes[sel[k]].statement]

\* The three walks agree with the preorder of the tree, the lines of the trace
\* starting with marker after the indentation.
C27_Walks(marker) ==
    nodes # <<>> =>
        LET order == InPreorder(1..Len(nodes), Paths(nodes))
        IN  /\ format_reasoning_trace(nodes)
                  = JoinLines([k \in 1..Len(order) |-> C27_Rendered(order[k], marker)])
            /\ extract_underlying_facts(nodes) = C27_Statements(order, "story_fact")
            /\ extract_rule_signals(nodes) = C27_Statements(order, "rule_fact")

\* C27 as stated: the trace has one line per node in preorder, two spaces of
\* indentation per level followed directly by `statement (kind)`; the story-fact
\* list and the rule list follow the same order; the step of expand_node that
\* walks the tree (for the story-fact list of the oracle call) leaves it unchanged.
C27_TraceAsStated ==
    /\ [](C27_Walks(<<>>))
    /\ [][Len(calls') > Len(calls) => nodes' = nodes]_vars

\* C27 amended: the same, each line of the trace being the indentation, the list
\* marker "- " and then `statement (kind)`.
C27_TraceWithMarker ==
    /\ [](C27_Walks(<<"-", " ">>))
    /\ [][Len(calls') > Len(calls) => nodes' = nodes]_vars

\* C27 witness: a returned tree with a rule_fact node at depth 1 and a story_fact
\* node at depth 2: the trace has as many lines as the tree has nodes, the line of
\* the root starts with the marker and a line is indented by four spaces.
C27_Witness ==
    /\ tpc = "done"
    /\ \E r, s \in ExpansionNodes :
          /\ nodes[r].node_type = "rule_fact" /\ Depth(nodes, r) = 1
          /\ nodes[s].node_type = "story_fact" /\ Depth(nodes, s) = 2
    /\ LET lines == Split(format_reasoning_trace(nodes))
       IN  /\ Len(lines) = Len(nodes)
           /\ SubSeq(lines[1], 1, 2) = <<"-", " ">>
           /\ \E k \in 1..Len(lines) : SubSeq(lines[k], 1, 6) = <<" ", " ", " ", " ", "-", " ">>

(***************************************************************************)
(* Negative inputs and the order of the partners (SpecCouple).             *)
(***************************************************************************)

\* C28: whatever the signs of the incomes, medical costs and transfer incomes, in
\* the assessment compare_assessments returns no rate is a division by zero (a
\* rate that is not the constant 0 has a base > 0); the adjusted incomes, the bases
\* the single and the split tax are computed on, and the income the levy table is
\* looked up with are all >= 0, and so are both totals.
C28_NegativeInputsClamped ==
    Assessed =>
        LET j == assessment[1].joint
            i == assessment[1].individual
        IN  /\ \A rate \in {j.prate, i.prate_a, i.prate_b} :
                  /\ rate.base_plus >= 0 /\ rate.num >= 0
                  /\ rate.zero = (rate.base_plus = 0)
                  /\ ~rate.zero => rate.den = rate.base_plus
            /\ j.ta >= 0 /\ j.tb >= 0 /\ i.ta >= 0 /\ i.tb >= 0
            /\ j.taxable_total >= 0 /\ j.wrb_total >= 0
            /\ j.special_church_tax.q >= 0
            /\ assessment[1].joint_total_tax >= 0
            /\ assessment[1].individual_total_tax >= 0

\* C28 witness: a couple with a negative income, a negative transfer income and a
\* negative medical expense was assessed, and the other partner's income was
\* taxed.
C28_Witness ==
    /\ Assessed
    /\ params.a.income < 0 /\ params.a.wage_replacement < 0
    /\ params.b.medical_costs < 0 /\ params.b.income > 0
    /\ assessment[1].joint.ta = 0
    /\ assessment[1].joint.wrb_total = 100 * params.b.wage_replacement
    /\ assessment[1].joint.tb = 100 * params.b.income
    /\ assessment[1].joint_total_tax > 0

\* The couple with the partners exchanged.
Swap(p) == [p EXCEPT !.a = p.b, !.b = p.a]

\* C30: compare_assessments on the couple with a and b exchanged gives the same
\* joint total, the same individual total and the same recommendation: the exact
\* sums are equal, the levies of the partners are exchanged, the values the rounded
\* totals can take are the same, and the assessment returned for the couple is
\* among those of the exchanged couple.
C30_PartnerOrder ==
    Assessed =>
        LET r == assessment[1]
        IN  \A x \in compare_assessments(Swap(params)) :
                /\ SameAmount(x.joint.total, r.joint.total)
                /\ SameAmount(x.joint.church_a, r.joint.church_b)
                /\ SameAmount(x.joint.church_b, r.joint.church_a)
                /\ x.joint.special_a = r.joint.special_b
                /\ x.joint.special_b = r.joint.special_a
                /\ SameAmount(x.individual.total_a, r.individual.total_b)
                /\ SameAmount(x.individual.total_b, r.individual.total_a)
                /\ x.joint.rounded = r.joint.rounded
                /\ x.individual.rounded = r.individual.rounded
                /\ (x.joint_total_tax = r.joint_total_tax
                      /\ x.individual_total_tax = r.individual_total_tax)
                        => x.recommendation = r.recommendation

\* C30 witness: a couple with different incomes in which only b is a levy member,
\* holds less than 35% of the income and pays the stepped levy was assessed; in the
\* exchanged couple the override applies to a.
C30_Witness ==
    /\ Assessed
    /\ ~params.a.pays_church_tax /\ params.b.pays_church_tax
    /\ params.a.income > params.b.income /\ params.b.income > 0
    /\ assessment[1].joint.special_b
    /\ SameAmount(assessment[1].joint.church_b, assessment[1].joint.special_church_tax)
    /\ assessment[1].joint.church_b.q > 0
    /\ compute_joint_total(Swap(params)).special_a

=============================================================================
